---------------------------- MODULE Spec2Model ----------------------------
(***************************************************************************)
(* A model of the opening-hours expression engine of kopeninghours:        *)
(*   - the bison parser of openinghoursparser.y: the LALR(1) automaton of  *)
(*     its grammar, driven by the token stream of the lexer, with the      *)
(*     semantic action of every rule;                                      *)
(*   - the rule objects the parser builds (rule.cpp): their required       *)
(*     capabilities and the interval they yield for an instant;            *)
(*   - the evaluated Interval (interval.h).                                *)
(***************************************************************************)
EXTENDS Integers, Sequences, FiniteSets, TLC

\* Bounds of the model.
\* The number of tokens the lexer delivers before the end of the input.
MaxTokens == 3
\* The days of the calendar an instant is drawn from are 0..MaxDay.
MaxDay == 1
\* The number of calls a caller makes on the rules of one expression.
MaxCalls == 3
\* The rules of the grammar in source order; rule 0 is the augmented start
\* rule $accept: Ruleset $end. yyr1[n+1] is the left-hand side of rule n.
yyr1 ==
  << "$accept",  \* rule 0: Ruleset $end (line 0)
     "Ruleset",  \* rule 1: Rule (line 162)
     "Ruleset",  \* rule 2: Ruleset T_NORMAL_RULE_SEPARATOR Rule (line 163)
     "Ruleset",  \* rule 3: Ruleset T_ADDITIONAL_RULE_SEPARATOR Rule (line 164)
     "Ruleset",  \* rule 4: Ruleset T_FALLBACK_SEPARATOR T_COMMENT (line 165)
     "Rule",  \* rule 5: SelectorSequence (line 169)
     "Rule",  \* rule 6: SelectorSequence T_COMMENT (line 173)
     "Rule",  \* rule 7: SelectorSequence T_STATE (line 178)
     "Rule",  \* rule 8: SelectorSequence T_STATE T_COMMENT (line 183)
     "SelectorSequence",  \* rule 9: T_24_7 (line 192)
     "SelectorSequence",  \* rule 10: SmallRangeSelector (line 193)
     "SelectorSequence",  \* rule 11: WideRangeSelector (line 194)
     "SelectorSequence",  \* rule 12: WideRangeSelector SmallRangeSelector (line 195)
     "WideRangeSelector",  \* rule 13: YearSelector (line 203)
     "WideRangeSelector",  \* rule 14: MonthdaySelector (line 204)
     "WideRangeSelector",  \* rule 15: WeekSelector (line 205)
     "WideRangeSelector",  \* rule 16: YearSelector MonthdaySelector (line 206)
     "WideRangeSelector",  \* rule 17: YearSelector WeekSelector (line 209)
     "WideRangeSelector",  \* rule 18: MonthdaySelector WeekSelector (line 212)
     "WideRangeSelector",  \* rule 19: YearSelector MonthdaySelector WeekSelector (line 216)
     "WideRangeSelector",  \* rule 20: T_COMMENT T_COLON (line 220)
     "SmallRangeSelector",  \* rule 21: TimeSelector (line 224)
     "SmallRangeSelector",  \* rule 22: WeekdaySelector (line 225)
     "SmallRangeSelector",  \* rule 23: WeekdaySelector TimeSelector (line 226)
     "TimeSelector",  \* rule 24: Timespan (line 234)
     "TimeSelector",  \* rule 25: TimeSelector T_COMMA Timespan (line 238)
     "Timespan",  \* rule 26: Time (line 245)
     "Timespan",  \* rule 27: Time T_PLUS (line 249)
     "Timespan",  \* rule 28: Time T_MINUS Time (line 253)
     "Time",  \* rule 29: T_EXTENDED_HOUR_MINUTE (line 262)
     "Time",  \* rule 30: VariableTime (line 263)
     "VariableTime",  \* rule 31: T_EVENT (line 267)
     "VariableTime",  \* rule 32: T_LPAREN T_EVENT T_PLUS T_INTEGER T_RPAREN (line 268)
     "VariableTime",  \* rule 33: T_LPAREN T_EVENT T_MINUS T_INTEGER T_RPAREN (line 269)
     "WeekdaySelector",  \* rule 34: WeekdaySequence (line 274)
     "WeekdaySelector",  \* rule 35: HolidySequence (line 278)
     "WeekdaySelector",  \* rule 36: HolidySequence T_COMMA WeekdaySequence (line 282)
     "WeekdaySelector",  \* rule 37: WeekdaySequence T_COMMA HolidySequence (line 287)
     "WeekdaySelector",  \* rule 38: HolidySequence " " WeekdaySequence (line 292)
     "WeekdaySequence",  \* rule 39: WeekdayRange (line 301)
     "WeekdaySequence",  \* rule 40: WeekdaySequence T_COMMA WeekdayRange (line 302)
     "WeekdayRange",  \* rule 41: T_WEEKDAY (line 306)
     "WeekdayRange",  \* rule 42: T_WEEKDAY T_MINUS T_WEEKDAY (line 310)
     "HolidySequence",  \* rule 43: Holiday (line 319)
     "HolidySequence",  \* rule 44: HolidySequence T_COMMA Holiday (line 320)
     "Holiday",  \* rule 45: T_PH (line 324)
     "Holiday",  \* rule 46: T_PH DayOffset (line 328)
     "Holiday",  \* rule 47: T_SH (line 333)
     "DayOffset",  \* rule 48: T_PLUS T_INTEGER T_KEYWORD_DAY (line 340)
     "DayOffset",  \* rule 49: T_MINUS T_INTEGER T_KEYWORD_DAY (line 341)
     "WeekSelector",  \* rule 50: T_KEYWORD_WEEK Week (line 346)
     "WeekSelector",  \* rule 51: WeekSelector T_COMMA Week (line 350)
     "Week",  \* rule 52: T_INTEGER (line 357)
     "Week",  \* rule 53: T_INTEGER T_MINUS T_INTEGER (line 361)
     "Week",  \* rule 54: T_INTEGER T_MINUS T_INTEGER T_SLASH T_INTEGER (line 366)
     "MonthdaySelector",  \* rule 55: MonthdayRange (line 376)
     "MonthdaySelector",  \* rule 56: MonthdaySelector T_COMMA MonthdayRange (line 380)
     "MonthdayRange",  \* rule 57: T_MONTH (line 387)
     "MonthdayRange",  \* rule 58: DateFrom (line 391)
     "MonthdayRange",  \* rule 59: DateFrom DateOffset (line 395)
     "MonthdayRange",  \* rule 60: DateFrom T_MINUS DateTo (line 400)
     "DateOffset",  \* rule 61: T_PLUS T_WEEKDAY (line 408)
     "DateOffset",  \* rule 62: T_MINUS T_WEEKDAY (line 409)
     "DateOffset",  \* rule 63: DayOffset (line 410)
     "DateFrom",  \* rule 64: T_MONTH T_INTEGER (line 414)
     "DateFrom",  \* rule 65: T_INTEGER T_MONTH T_INTEGER (line 415)
     "DateFrom",  \* rule 66: VariableDate (line 416)
     "DateFrom",  \* rule 67: T_INTEGER VariableDate (line 417)
     "DateTo",  \* rule 68: DateFrom (line 424)
     "DateTo",  \* rule 69: T_INTEGER (line 425)
     "VariableDate",  \* rule 70: T_EASTER (line 429)
     "YearSelector" >>  \* rule 71: T_INTEGER (line 434)

\* yyrhs[n+1] is the right-hand side of rule n, yyr2[n+1] its length.
yyrhs ==
  << << "Ruleset", "$end" >>,  \* rule 0: $accept
     << "Rule" >>,  \* rule 1: Ruleset
     << "Ruleset", "T_NORMAL_RULE_SEPARATOR", "Rule" >>,  \* rule 2: Ruleset
     << "Ruleset", "T_ADDITIONAL_RULE_SEPARATOR", "Rule" >>,  \* rule 3: Ruleset
     << "Ruleset", "T_FALLBACK_SEPARATOR", "T_COMMENT" >>,  \* rule 4: Ruleset
     << "SelectorSequence" >>,  \* rule 5: Rule
     << "SelectorSequence", "T_COMMENT" >>,  \* rule 6: Rule
     << "SelectorSequence", "T_STATE" >>,  \* rule 7: Rule
     << "SelectorSequence", "T_STATE", "T_COMMENT" >>,  \* rule 8: Rule
     << "T_24_7" >>,  \* rule 9: SelectorSequence
     << "SmallRangeSelector" >>,  \* rule 10: SelectorSequence
     << "WideRangeSelector" >>,  \* rule 11: SelectorSequence
     << "WideRangeSelector", "SmallRangeSelector" >>,  \* rule 12: SelectorSequence
     << "YearSelector" >>,  \* rule 13: WideRangeSelector
     << "MonthdaySelector" >>,  \* rule 14: WideRangeSelector
     << "WeekSelector" >>,  \* rule 15: WideRangeSelector
     << "YearSelector", "MonthdaySelector" >>,  \* rule 16: WideRangeSelector
     << "YearSelector", "WeekSelector" >>,  \* rule 17: WideRangeSelector
     << "MonthdaySelector", "WeekSelector" >>,  \* rule 18: WideRangeSelector
     << "YearSelector", "MonthdaySelector", "WeekSelector" >>,  \* rule 19: WideRangeSelector
     << "T_COMMENT", "T_COLON" >>,  \* rule 20: WideRangeSelector
     << "TimeSelector" >>,  \* rule 21: SmallRangeSelector
     << "WeekdaySelector" >>,  \* rule 22: SmallRangeSelector
     << "WeekdaySelector", "TimeSelector" >>,  \* rule 23: SmallRangeSelector
     << "Timespan" >>,  \* rule 24: TimeSelector
     << "TimeSelector", "T_COMMA", "Timespan" >>,  \* rule 25: TimeSelector
     << "Time" >>,  \* rule 26: Timespan
     << "Time", "T_PLUS" >>,  \* rule 27: Timespan
     << "Time", "T_MINUS", "Time" >>,  \* rule 28: Timespan
     << "T_EXTENDED_HOUR_MINUTE" >>,  \* rule 29: Time
     << "VariableTime" >>,  \* rule 30: Time
     << "T_EVENT" >>,  \* rule 31: VariableTime
     << "T_LPAREN", "T_EVENT", "T_PLUS", "T_INTEGER", "T_RPAREN" >>,  \* rule 32: VariableTime
     << "T_LPAREN", "T_EVENT", "T_MINUS", "T_INTEGER", "T_RPAREN" >>,  \* rule 33: VariableTime
     << "WeekdaySequence" >>,  \* rule 34: WeekdaySelector
     << "HolidySequence" >>,  \* rule 35: WeekdaySelector
     << "HolidySequence", "T_COMMA", "WeekdaySequence" >>,  \* rule 36: WeekdaySelector
     << "WeekdaySequence", "T_COMMA", "HolidySequence" >>,  \* rule 37: WeekdaySelector
     << "HolidySequence", " ", "WeekdaySequence" >>,  \* rule 38: WeekdaySelector
     << "WeekdayRange" >>,  \* rule 39: WeekdaySequence
     << "WeekdaySequence", "T_COMMA", "WeekdayRange" >>,  \* rule 40: WeekdaySequence
     << "T_WEEKDAY" >>,  \* rule 41: WeekdayRange
     << "T_WEEKDAY", "T_MINUS", "T_WEEKDAY" >>,  \* rule 42: WeekdayRange
     << "Holiday" >>,  \* rule 43: HolidySequence
     << "HolidySequence", "T_COMMA", "Holiday" >>,  \* rule 44: HolidySequence
     << "T_PH" >>,  \* rule 45: Holiday
     << "T_PH", "DayOffset" >>,  \* rule 46: Holiday
     << "T_SH" >>,  \* rule 47: Holiday
     << "T_PLUS", "T_INTEGER", "T_KEYWORD_DAY" >>,  \* rule 48: DayOffset
     << "T_MINUS", "T_INTEGER", "T_KEYWORD_DAY" >>,  \* rule 49: DayOffset
     << "T_KEYWORD_WEEK", "Week" >>,  \* rule 50: WeekSelector
     << "WeekSelector", "T_COMMA", "Week" >>,  \* rule 51: WeekSelector
     << "T_INTEGER" >>,  \* rule 52: Week
     << "T_INTEGER", "T_MINUS", "T_INTEGER" >>,  \* rule 53: Week
     << "T_INTEGER", "T_MINUS", "T_INTEGER", "T_SLASH", "T_INTEGER" >>,  \* rule 54: Week
     << "MonthdayRange" >>,  \* rule 55: MonthdaySelector
     << "MonthdaySelector", "T_COMMA", "MonthdayRange" >>,  \* rule 56: MonthdaySelector
     << "T_MONTH" >>,  \* rule 57: MonthdayRange
     << "DateFrom" >>,  \* rule 58: MonthdayRange
     << "DateFrom", "DateOffset" >>,  \* rule 59: MonthdayRange
     << "DateFrom", "T_MINUS", "DateTo" >>,  \* rule 60: MonthdayRange
     << "T_PLUS", "T_WEEKDAY" >>,  \* rule 61: DateOffset
     << "T_MINUS", "T_WEEKDAY" >>,  \* rule 62: DateOffset
     << "DayOffset" >>,  \* rule 63: DateOffset
     << "T_MONTH", "T_INTEGER" >>,  \* rule 64: DateFrom
     << "T_INTEGER", "T_MONTH", "T_INTEGER" >>,  \* rule 65: DateFrom
     << "VariableDate" >>,  \* rule 66: DateFrom
     << "T_INTEGER", "VariableDate" >>,  \* rule 67: DateFrom
     << "DateFrom" >>,  \* rule 68: DateTo
     << "T_INTEGER" >>,  \* rule 69: DateTo
     << "T_EASTER" >>,  \* rule 70: VariableDate
     << "T_INTEGER" >> >>  \* rule 71: YearSelector

yyr2 == [n \in 1..Len(yyrhs) |-> Len(yyrhs[n])]

\* The LALR(1) automaton of the grammar. State s is entry s+1 of each table;
\* the comment gives the kernel items of the state. yyshift maps a lookahead
\* token to the state shifted to, yyreduce a lookahead token to the rule
\* reduced by (where it is not the default), yydefact is the default
\* reduction (0: none, a syntax error), yygoto the state entered after a
\* reduction to a nonterminal. A shift/reduce conflict is resolved as a
\* shift (state of 'YearSelector: T_INTEGER .' on T_MONTH and T_EASTER).
yyshift ==
  << ("T_PH" :> 8 @@ "T_INTEGER" :> 6 @@ "T_24_7" :> 2 @@ "T_KEYWORD_WEEK" :> 10 @@ "T_LPAREN" :> 5 @@ "T_COMMENT" :> 1 @@ "T_EVENT" :> 4 @@ "T_SH" :> 9 @@ "T_EASTER" :> 12 @@ "T_EXTENDED_HOUR_MINUTE" :> 3 @@ "T_WEEKDAY" :> 7 @@ "T_MONTH" :> 11),  \* state 0: $accept: . Ruleset $end
     ("T_COLON" :> 33),  \* state 1: WideRangeSelector: T_COMMENT . T_COLON
     <<>>,  \* state 2: SelectorSequence: T_24_7 .
     <<>>,  \* state 3: Time: T_EXTENDED_HOUR_MINUTE .
     <<>>,  \* state 4: VariableTime: T_EVENT .
     ("T_EVENT" :> 34),  \* state 5: VariableTime: T_LPAREN . T_EVENT T_PLUS T_INTEGER T_RPAREN; VariableTime: T_LPAREN . T_EVENT T_MINUS T_INTEGER T_RPAREN
     ("T_EASTER" :> 12 @@ "T_MONTH" :> 35),  \* state 6: DateFrom: T_INTEGER . T_MONTH T_INTEGER; DateFrom: T_INTEGER . VariableDate; YearSelector: T_INTEGER .
     ("T_MINUS" :> 37),  \* state 7: WeekdayRange: T_WEEKDAY .; WeekdayRange: T_WEEKDAY . T_MINUS T_WEEKDAY
     ("T_MINUS" :> 39 @@ "T_PLUS" :> 38),  \* state 8: Holiday: T_PH .; Holiday: T_PH . DayOffset
     <<>>,  \* state 9: Holiday: T_SH .
     ("T_INTEGER" :> 41),  \* state 10: WeekSelector: T_KEYWORD_WEEK . Week
     ("T_INTEGER" :> 43),  \* state 11: MonthdayRange: T_MONTH .; DateFrom: T_MONTH . T_INTEGER
     <<>>,  \* state 12: VariableDate: T_EASTER .
     ("T_NORMAL_RULE_SEPARATOR" :> 44 @@ "T_ADDITIONAL_RULE_SEPARATOR" :> 45 @@ "T_FALLBACK_SEPARATOR" :> 46),  \* state 13: $accept: Ruleset . $end; Ruleset: Ruleset . T_NORMAL_RULE_SEPARATOR Rule; Ruleset: Ruleset . T_ADDITIONAL_RULE_SEPARATOR Rule; Ruleset: Ruleset . T_FALLBACK_SEPARATOR T_COMMENT
     <<>>,  \* state 14: Ruleset: Rule .
     ("T_STATE" :> 48 @@ "T_COMMENT" :> 47),  \* state 15: Rule: SelectorSequence .; Rule: SelectorSequence . T_COMMENT; Rule: SelectorSequence . T_STATE; Rule: SelectorSequence . T_STATE T_COMMENT
     ("T_WEEKDAY" :> 7 @@ "T_PH" :> 8 @@ "T_EVENT" :> 4 @@ "T_LPAREN" :> 5 @@ "T_SH" :> 9 @@ "T_EXTENDED_HOUR_MINUTE" :> 3),  \* state 16: SelectorSequence: WideRangeSelector .; SelectorSequence: WideRangeSelector . SmallRangeSelector
     <<>>,  \* state 17: SelectorSequence: SmallRangeSelector .
     ("T_COMMA" :> 50),  \* state 18: SmallRangeSelector: TimeSelector .; TimeSelector: TimeSelector . T_COMMA Timespan
     <<>>,  \* state 19: TimeSelector: Timespan .
     ("T_PLUS" :> 51 @@ "T_MINUS" :> 52),  \* state 20: Timespan: Time .; Timespan: Time . T_PLUS; Timespan: Time . T_MINUS Time
     <<>>,  \* state 21: Time: VariableTime .
     ("T_EVENT" :> 4 @@ "T_EXTENDED_HOUR_MINUTE" :> 3 @@ "T_LPAREN" :> 5),  \* state 22: SmallRangeSelector: WeekdaySelector .; SmallRangeSelector: WeekdaySelector . TimeSelector
     ("T_COMMA" :> 54),  \* state 23: WeekdaySelector: WeekdaySequence .; WeekdaySelector: WeekdaySequence . T_COMMA HolidySequence; WeekdaySequence: WeekdaySequence . T_COMMA WeekdayRange
     <<>>,  \* state 24: WeekdaySequence: WeekdayRange .
     ("T_COMMA" :> 55 @@ " " :> 56),  \* state 25: WeekdaySelector: HolidySequence .; WeekdaySelector: HolidySequence . T_COMMA WeekdaySequence; WeekdaySelector: HolidySequence . " " WeekdaySequence; HolidySequence: HolidySequence . T_COMMA Holiday
     <<>>,  \* state 26: HolidySequence: Holiday .
     ("T_COMMA" :> 57),  \* state 27: WideRangeSelector: WeekSelector .; WeekSelector: WeekSelector . T_COMMA Week
     ("T_COMMA" :> 58 @@ "T_KEYWORD_WEEK" :> 10),  \* state 28: WideRangeSelector: MonthdaySelector .; WideRangeSelector: MonthdaySelector . WeekSelector; MonthdaySelector: MonthdaySelector . T_COMMA MonthdayRange
     <<>>,  \* state 29: MonthdaySelector: MonthdayRange .
     ("T_MINUS" :> 61 @@ "T_PLUS" :> 60),  \* state 30: MonthdayRange: DateFrom .; MonthdayRange: DateFrom . DateOffset; MonthdayRange: DateFrom . T_MINUS DateTo
     <<>>,  \* state 31: DateFrom: VariableDate .
     ("T_MONTH" :> 11 @@ "T_INTEGER" :> 64 @@ "T_EASTER" :> 12 @@ "T_KEYWORD_WEEK" :> 10),  \* state 32: WideRangeSelector: YearSelector .; WideRangeSelector: YearSelector . MonthdaySelector; WideRangeSelector: YearSelector . WeekSelector; WideRangeSelector: YearSelector . MonthdaySelector WeekSelector
     <<>>,  \* state 33: WideRangeSelector: T_COMMENT T_COLON .
     ("T_MINUS" :> 68 @@ "T_PLUS" :> 67),  \* state 34: VariableTime: T_LPAREN T_EVENT . T_PLUS T_INTEGER T_RPAREN; VariableTime: T_LPAREN T_EVENT . T_MINUS T_INTEGER T_RPAREN
     ("T_INTEGER" :> 69),  \* state 35: DateFrom: T_INTEGER T_MONTH . T_INTEGER
     <<>>,  \* state 36: DateFrom: T_INTEGER VariableDate .
     ("T_WEEKDAY" :> 70),  \* state 37: WeekdayRange: T_WEEKDAY T_MINUS . T_WEEKDAY
     ("T_INTEGER" :> 71),  \* state 38: DayOffset: T_PLUS . T_INTEGER T_KEYWORD_DAY
     ("T_INTEGER" :> 72),  \* state 39: DayOffset: T_MINUS . T_INTEGER T_KEYWORD_DAY
     <<>>,  \* state 40: Holiday: T_PH DayOffset .
     ("T_MINUS" :> 73),  \* state 41: Week: T_INTEGER .; Week: T_INTEGER . T_MINUS T_INTEGER; Week: T_INTEGER . T_MINUS T_INTEGER T_SLASH T_INTEGER
     <<>>,  \* state 42: WeekSelector: T_KEYWORD_WEEK Week .
     <<>>,  \* state 43: DateFrom: T_MONTH T_INTEGER .
     ("T_PH" :> 8 @@ "T_INTEGER" :> 6 @@ "T_24_7" :> 2 @@ "T_KEYWORD_WEEK" :> 10 @@ "T_LPAREN" :> 5 @@ "T_COMMENT" :> 1 @@ "T_EVENT" :> 4 @@ "T_SH" :> 9 @@ "T_EASTER" :> 12 @@ "T_EXTENDED_HOUR_MINUTE" :> 3 @@ "T_WEEKDAY" :> 7 @@ "T_MONTH" :> 11),  \* state 44: Ruleset: Ruleset T_NORMAL_RULE_SEPARATOR . Rule
     ("T_PH" :> 8 @@ "T_INTEGER" :> 6 @@ "T_24_7" :> 2 @@ "T_KEYWORD_WEEK" :> 10 @@ "T_LPAREN" :> 5 @@ "T_COMMENT" :> 1 @@ "T_EVENT" :> 4 @@ "T_SH" :> 9 @@ "T_EASTER" :> 12 @@ "T_EXTENDED_HOUR_MINUTE" :> 3 @@ "T_WEEKDAY" :> 7 @@ "T_MONTH" :> 11),  \* state 45: Ruleset: Ruleset T_ADDITIONAL_RULE_SEPARATOR . Rule
     ("T_COMMENT" :> 76),  \* state 46: Ruleset: Ruleset T_FALLBACK_SEPARATOR . T_COMMENT
     <<>>,  \* state 47: Rule: SelectorSequence T_COMMENT .
     ("T_COMMENT" :> 77),  \* state 48: Rule: SelectorSequence T_STATE .; Rule: SelectorSequence T_STATE . T_COMMENT
     <<>>,  \* state 49: SelectorSequence: WideRangeSelector SmallRangeSelector .
     ("T_EVENT" :> 4 @@ "T_EXTENDED_HOUR_MINUTE" :> 3 @@ "T_LPAREN" :> 5),  \* state 50: TimeSelector: TimeSelector T_COMMA . Timespan
     <<>>,  \* state 51: Timespan: Time T_PLUS .
     ("T_EVENT" :> 4 @@ "T_EXTENDED_HOUR_MINUTE" :> 3 @@ "T_LPAREN" :> 5),  \* state 52: Timespan: Time T_MINUS . Time
     ("T_COMMA" :> 50),  \* state 53: SmallRangeSelector: WeekdaySelector TimeSelector .; TimeSelector: TimeSelector . T_COMMA Timespan
     ("T_WEEKDAY" :> 7 @@ "T_PH" :> 8 @@ "T_SH" :> 9),  \* state 54: WeekdaySelector: WeekdaySequence T_COMMA . HolidySequence; WeekdaySequence: WeekdaySequence T_COMMA . WeekdayRange
     ("T_WEEKDAY" :> 7 @@ "T_PH" :> 8 @@ "T_SH" :> 9),  \* state 55: WeekdaySelector: HolidySequence T_COMMA . WeekdaySequence; HolidySequence: HolidySequence T_COMMA . Holiday
     ("T_WEEKDAY" :> 7),  \* state 56: WeekdaySelector: HolidySequence " " . WeekdaySequence
     ("T_INTEGER" :> 41),  \* state 57: WeekSelector: WeekSelector T_COMMA . Week
     ("T_MONTH" :> 11 @@ "T_INTEGER" :> 64 @@ "T_EASTER" :> 12),  \* state 58: MonthdaySelector: MonthdaySelector T_COMMA . MonthdayRange
     ("T_COMMA" :> 57),  \* state 59: WideRangeSelector: MonthdaySelector WeekSelector .; WeekSelector: WeekSelector . T_COMMA Week
     ("T_WEEKDAY" :> 87 @@ "T_INTEGER" :> 71),  \* state 60: DayOffset: T_PLUS . T_INTEGER T_KEYWORD_DAY; DateOffset: T_PLUS . T_WEEKDAY
     ("T_INTEGER" :> 88 @@ "T_EASTER" :> 12 @@ "T_MONTH" :> 90 @@ "T_WEEKDAY" :> 89),  \* state 61: DayOffset: T_MINUS . T_INTEGER T_KEYWORD_DAY; MonthdayRange: DateFrom T_MINUS . DateTo; DateOffset: T_MINUS . T_WEEKDAY
     <<>>,  \* state 62: DateOffset: DayOffset .
     <<>>,  \* state 63: MonthdayRange: DateFrom DateOffset .
     ("T_EASTER" :> 12 @@ "T_MONTH" :> 35),  \* state 64: DateFrom: T_INTEGER . T_MONTH T_INTEGER; DateFrom: T_INTEGER . VariableDate
     ("T_COMMA" :> 57),  \* state 65: WideRangeSelector: YearSelector WeekSelector .; WeekSelector: WeekSelector . T_COMMA Week
     ("T_COMMA" :> 58 @@ "T_KEYWORD_WEEK" :> 10),  \* state 66: WideRangeSelector: YearSelector MonthdaySelector .; WideRangeSelector: YearSelector MonthdaySelector . WeekSelector; MonthdaySelector: MonthdaySelector . T_COMMA MonthdayRange
     ("T_INTEGER" :> 94),  \* state 67: VariableTime: T_LPAREN T_EVENT T_PLUS . T_INTEGER T_RPAREN
     ("T_INTEGER" :> 95),  \* state 68: VariableTime: T_LPAREN T_EVENT T_MINUS . T_INTEGER T_RPAREN
     <<>>,  \* state 69: DateFrom: T_INTEGER T_MONTH T_INTEGER .
     <<>>,  \* state 70: WeekdayRange: T_WEEKDAY T_MINUS T_WEEKDAY .
     ("T_KEYWORD_DAY" :> 96),  \* state 71: DayOffset: T_PLUS T_INTEGER . T_KEYWORD_DAY
     ("T_KEYWORD_DAY" :> 97),  \* state 72: DayOffset: T_MINUS T_INTEGER . T_KEYWORD_DAY
     ("T_INTEGER" :> 98),  \* state 73: Week: T_INTEGER T_MINUS . T_INTEGER; Week: T_INTEGER T_MINUS . T_INTEGER T_SLASH T_INTEGER
     <<>>,  \* state 74: Ruleset: Ruleset T_NORMAL_RULE_SEPARATOR Rule .
     <<>>,  \* state 75: Ruleset: Ruleset T_ADDITIONAL_RULE_SEPARATOR Rule .
     <<>>,  \* state 76: Ruleset: Ruleset T_FALLBACK_SEPARATOR T_COMMENT .
     <<>>,  \* state 77: Rule: SelectorSequence T_STATE T_COMMENT .
     <<>>,  \* state 78: TimeSelector: TimeSelector T_COMMA Timespan .
     <<>>,  \* state 79: Timespan: Time T_MINUS Time .
     <<>>,  \* state 80: WeekdaySequence: WeekdaySequence T_COMMA WeekdayRange .
     ("T_COMMA" :> 99),  \* state 81: WeekdaySelector: WeekdaySequence T_COMMA HolidySequence .; HolidySequence: HolidySequence . T_COMMA Holiday
     ("T_COMMA" :> 100),  \* state 82: WeekdaySelector: HolidySequence T_COMMA WeekdaySequence .; WeekdaySequence: WeekdaySequence . T_COMMA WeekdayRange
     <<>>,  \* state 83: HolidySequence: HolidySequence T_COMMA Holiday .
     ("T_COMMA" :> 100),  \* state 84: WeekdaySelector: HolidySequence " " WeekdaySequence .; WeekdaySequence: WeekdaySequence . T_COMMA WeekdayRange
     <<>>,  \* state 85: WeekSelector: WeekSelector T_COMMA Week .
     <<>>,  \* state 86: MonthdaySelector: MonthdaySelector T_COMMA MonthdayRange .
     <<>>,  \* state 87: DateOffset: T_PLUS T_WEEKDAY .
     ("T_EASTER" :> 12 @@ "T_MONTH" :> 35 @@ "T_KEYWORD_DAY" :> 97),  \* state 88: DayOffset: T_MINUS T_INTEGER . T_KEYWORD_DAY; DateFrom: T_INTEGER . T_MONTH T_INTEGER; DateFrom: T_INTEGER . VariableDate; DateTo: T_INTEGER .
     <<>>,  \* state 89: DateOffset: T_MINUS T_WEEKDAY .
     ("T_INTEGER" :> 43),  \* state 90: DateFrom: T_MONTH . T_INTEGER
     <<>>,  \* state 91: DateTo: DateFrom .
     <<>>,  \* state 92: MonthdayRange: DateFrom T_MINUS DateTo .
     ("T_COMMA" :> 57),  \* state 93: WideRangeSelector: YearSelector MonthdaySelector WeekSelector .; WeekSelector: WeekSelector . T_COMMA Week
     ("T_RPAREN" :> 101),  \* state 94: VariableTime: T_LPAREN T_EVENT T_PLUS T_INTEGER . T_RPAREN
     ("T_RPAREN" :> 102),  \* state 95: VariableTime: T_LPAREN T_EVENT T_MINUS T_INTEGER . T_RPAREN
     <<>>,  \* state 96: DayOffset: T_PLUS T_INTEGER T_KEYWORD_DAY .
     <<>>,  \* state 97: DayOffset: T_MINUS T_INTEGER T_KEYWORD_DAY .
     ("T_SLASH" :> 103),  \* state 98: Week: T_INTEGER T_MINUS T_INTEGER .; Week: T_INTEGER T_MINUS T_INTEGER . T_SLASH T_INTEGER
     ("T_SH" :> 9 @@ "T_PH" :> 8),  \* state 99: HolidySequence: HolidySequence T_COMMA . Holiday
     ("T_WEEKDAY" :> 7),  \* state 100: WeekdaySequence: WeekdaySequence T_COMMA . WeekdayRange
     <<>>,  \* state 101: VariableTime: T_LPAREN T_EVENT T_PLUS T_INTEGER T_RPAREN .
     <<>>,  \* state 102: VariableTime: T_LPAREN T_EVENT T_MINUS T_INTEGER T_RPAREN .
     ("T_INTEGER" :> 104),  \* state 103: Week: T_INTEGER T_MINUS T_INTEGER T_SLASH . T_INTEGER
     <<>> >>  \* state 104: Week: T_INTEGER T_MINUS T_INTEGER T_SLASH T_INTEGER .

yyreduce ==
  << <<>>,  \* state 0
     <<>>,  \* state 1
     <<>>,  \* state 2
     <<>>,  \* state 3
     <<>>,  \* state 4
     <<>>,  \* state 5
     <<>>,  \* state 6
     <<>>,  \* state 7
     <<>>,  \* state 8
     <<>>,  \* state 9
     <<>>,  \* state 10
     <<>>,  \* state 11
     <<>>,  \* state 12
     <<>>,  \* state 13
     <<>>,  \* state 14
     <<>>,  \* state 15
     <<>>,  \* state 16
     <<>>,  \* state 17
     <<>>,  \* state 18
     <<>>,  \* state 19
     <<>>,  \* state 20
     <<>>,  \* state 21
     <<>>,  \* state 22
     <<>>,  \* state 23
     <<>>,  \* state 24
     <<>>,  \* state 25
     <<>>,  \* state 26
     <<>>,  \* state 27
     <<>>,  \* state 28
     <<>>,  \* state 29
     <<>>,  \* state 30
     <<>>,  \* state 31
     <<>>,  \* state 32
     <<>>,  \* state 33
     <<>>,  \* state 34
     <<>>,  \* state 35
     <<>>,  \* state 36
     <<>>,  \* state 37
     <<>>,  \* state 38
     <<>>,  \* state 39
     <<>>,  \* state 40
     <<>>,  \* state 41
     <<>>,  \* state 42
     <<>>,  \* state 43
     <<>>,  \* state 44
     <<>>,  \* state 45
     <<>>,  \* state 46
     <<>>,  \* state 47
     <<>>,  \* state 48
     <<>>,  \* state 49
     <<>>,  \* state 50
     <<>>,  \* state 51
     <<>>,  \* state 52
     <<>>,  \* state 53
     <<>>,  \* state 54
     <<>>,  \* state 55
     <<>>,  \* state 56
     <<>>,  \* state 57
     <<>>,  \* state 58
     <<>>,  \* state 59
     <<>>,  \* state 60
     <<>>,  \* state 61
     <<>>,  \* state 62
     <<>>,  \* state 63
     <<>>,  \* state 64
     <<>>,  \* state 65
     <<>>,  \* state 66
     <<>>,  \* state 67
     <<>>,  \* state 68
     <<>>,  \* state 69
     <<>>,  \* state 70
     <<>>,  \* state 71
     <<>>,  \* state 72
     <<>>,  \* state 73
     <<>>,  \* state 74
     <<>>,  \* state 75
     <<>>,  \* state 76
     <<>>,  \* state 77
     <<>>,  \* state 78
     <<>>,  \* state 79
     <<>>,  \* state 80
     <<>>,  \* state 81
     <<>>,  \* state 82
     <<>>,  \* state 83
     <<>>,  \* state 84
     <<>>,  \* state 85
     <<>>,  \* state 86
     <<>>,  \* state 87
     <<>>,  \* state 88
     <<>>,  \* state 89
     <<>>,  \* state 90
     <<>>,  \* state 91
     <<>>,  \* state 92
     <<>>,  \* state 93
     <<>>,  \* state 94
     <<>>,  \* state 95
     <<>>,  \* state 96
     <<>>,  \* state 97
     <<>>,  \* state 98
     <<>>,  \* state 99
     <<>>,  \* state 100
     <<>>,  \* state 101
     <<>>,  \* state 102
     <<>>,  \* state 103
     <<>> >>  \* state 104

yydefact ==
  << 0,  \* state 0
     0,  \* state 1
     9,  \* state 2
     29,  \* state 3
     31,  \* state 4
     0,  \* state 5
     71,  \* state 6
     41,  \* state 7
     45,  \* state 8
     47,  \* state 9
     0,  \* state 10
     57,  \* state 11
     70,  \* state 12
     0,  \* state 13
     1,  \* state 14
     5,  \* state 15
     11,  \* state 16
     10,  \* state 17
     21,  \* state 18
     24,  \* state 19
     26,  \* state 20
     30,  \* state 21
     22,  \* state 22
     34,  \* state 23
     39,  \* state 24
     35,  \* state 25
     43,  \* state 26
     15,  \* state 27
     14,  \* state 28
     55,  \* state 29
     58,  \* state 30
     66,  \* state 31
     13,  \* state 32
     20,  \* state 33
     0,  \* state 34
     0,  \* state 35
     67,  \* state 36
     0,  \* state 37
     0,  \* state 38
     0,  \* state 39
     46,  \* state 40
     52,  \* state 41
     50,  \* state 42
     64,  \* state 43
     0,  \* state 44
     0,  \* state 45
     0,  \* state 46
     6,  \* state 47
     7,  \* state 48
     12,  \* state 49
     0,  \* state 50
     27,  \* state 51
     0,  \* state 52
     23,  \* state 53
     0,  \* state 54
     0,  \* state 55
     0,  \* state 56
     0,  \* state 57
     0,  \* state 58
     18,  \* state 59
     0,  \* state 60
     0,  \* state 61
     63,  \* state 62
     59,  \* state 63
     0,  \* state 64
     17,  \* state 65
     16,  \* state 66
     0,  \* state 67
     0,  \* state 68
     65,  \* state 69
     42,  \* state 70
     0,  \* state 71
     0,  \* state 72
     0,  \* state 73
     2,  \* state 74
     3,  \* state 75
     4,  \* state 76
     8,  \* state 77
     25,  \* state 78
     28,  \* state 79
     40,  \* state 80
     37,  \* state 81
     36,  \* state 82
     44,  \* state 83
     38,  \* state 84
     51,  \* state 85
     56,  \* state 86
     61,  \* state 87
     69,  \* state 88
     62,  \* state 89
     0,  \* state 90
     68,  \* state 91
     60,  \* state 92
     19,  \* state 93
     0,  \* state 94
     0,  \* state 95
     48,  \* state 96
     49,  \* state 97
     53,  \* state 98
     0,  \* state 99
     0,  \* state 100
     32,  \* state 101
     33,  \* state 102
     0,  \* state 103
     54 >>  \* state 104

yygoto ==
  << ("Ruleset" :> 13 @@ "Timespan" :> 19 @@ "VariableDate" :> 31 @@ "WeekdaySequence" :> 23 @@ "DateFrom" :> 30 @@ "YearSelector" :> 32 @@ "HolidySequence" :> 25 @@ "WeekSelector" :> 27 @@ "Time" :> 20 @@ "MonthdaySelector" :> 28 @@ "Rule" :> 14 @@ "MonthdayRange" :> 29 @@ "SelectorSequence" :> 15 @@ "Holiday" :> 26 @@ "WideRangeSelector" :> 16 @@ "TimeSelector" :> 18 @@ "SmallRangeSelector" :> 17 @@ "WeekdayRange" :> 24 @@ "VariableTime" :> 21 @@ "WeekdaySelector" :> 22),  \* state 0
     <<>>,  \* state 1
     <<>>,  \* state 2
     <<>>,  \* state 3
     <<>>,  \* state 4
     <<>>,  \* state 5
     ("VariableDate" :> 36),  \* state 6
     <<>>,  \* state 7
     ("DayOffset" :> 40),  \* state 8
     <<>>,  \* state 9
     ("Week" :> 42),  \* state 10
     <<>>,  \* state 11
     <<>>,  \* state 12
     <<>>,  \* state 13
     <<>>,  \* state 14
     <<>>,  \* state 15
     ("Timespan" :> 19 @@ "WeekdayRange" :> 24 @@ "HolidySequence" :> 25 @@ "WeekdaySequence" :> 23 @@ "VariableTime" :> 21 @@ "Holiday" :> 26 @@ "Time" :> 20 @@ "WeekdaySelector" :> 22 @@ "SmallRangeSelector" :> 49 @@ "TimeSelector" :> 18),  \* state 16
     <<>>,  \* state 17
     <<>>,  \* state 18
     <<>>,  \* state 19
     <<>>,  \* state 20
     <<>>,  \* state 21
     ("Timespan" :> 19 @@ "TimeSelector" :> 53 @@ "VariableTime" :> 21 @@ "Time" :> 20),  \* state 22
     <<>>,  \* state 23
     <<>>,  \* state 24
     <<>>,  \* state 25
     <<>>,  \* state 26
     <<>>,  \* state 27
     ("WeekSelector" :> 59),  \* state 28
     <<>>,  \* state 29
     ("DayOffset" :> 62 @@ "DateOffset" :> 63),  \* state 30
     <<>>,  \* state 31
     ("WeekSelector" :> 65 @@ "MonthdaySelector" :> 66 @@ "MonthdayRange" :> 29 @@ "DateFrom" :> 30 @@ "VariableDate" :> 31),  \* state 32
     <<>>,  \* state 33
     <<>>,  \* state 34
     <<>>,  \* state 35
     <<>>,  \* state 36
     <<>>,  \* state 37
     <<>>,  \* state 38
     <<>>,  \* state 39
     <<>>,  \* state 40
     <<>>,  \* state 41
     <<>>,  \* state 42
     <<>>,  \* state 43
     ("Timespan" :> 19 @@ "VariableDate" :> 31 @@ "WeekdaySequence" :> 23 @@ "DateFrom" :> 30 @@ "YearSelector" :> 32 @@ "HolidySequence" :> 25 @@ "WeekSelector" :> 27 @@ "Time" :> 20 @@ "MonthdaySelector" :> 28 @@ "Rule" :> 74 @@ "MonthdayRange" :> 29 @@ "SelectorSequence" :> 15 @@ "Holiday" :> 26 @@ "WideRangeSelector" :> 16 @@ "TimeSelector" :> 18 @@ "SmallRangeSelector" :> 17 @@ "WeekdayRange" :> 24 @@ "VariableTime" :> 21 @@ "WeekdaySelector" :> 22),  \* state 44
     ("Timespan" :> 19 @@ "VariableDate" :> 31 @@ "WeekdaySequence" :> 23 @@ "DateFrom" :> 30 @@ "YearSelector" :> 32 @@ "HolidySequence" :> 25 @@ "WeekSelector" :> 27 @@ "Time" :> 20 @@ "MonthdaySelector" :> 28 @@ "MonthdayRange" :> 29 @@ "SelectorSequence" :> 15 @@ "Holiday" :> 26 @@ "WideRangeSelector" :> 16 @@ "TimeSelector" :> 18 @@ "SmallRangeSelector" :> 17 @@ "WeekdayRange" :> 24 @@ "VariableTime" :> 21 @@ "Rule" :> 75 @@ "WeekdaySelector" :> 22),  \* state 45
     <<>>,  \* state 46
     <<>>,  \* state 47
     <<>>,  \* state 48
     <<>>,  \* state 49
     ("VariableTime" :> 21 @@ "Timespan" :> 78 @@ "Time" :> 20),  \* state 50
     <<>>,  \* state 51
     ("VariableTime" :> 21 @@ "Time" :> 79),  \* state 52
     <<>>,  \* state 53
     ("WeekdayRange" :> 80 @@ "HolidySequence" :> 81 @@ "Holiday" :> 26),  \* state 54
     ("WeekdayRange" :> 24 @@ "WeekdaySequence" :> 82 @@ "Holiday" :> 83),  \* state 55
     ("WeekdayRange" :> 24 @@ "WeekdaySequence" :> 84),  \* state 56
     ("Week" :> 85),  \* state 57
     ("DateFrom" :> 30 @@ "VariableDate" :> 31 @@ "MonthdayRange" :> 86),  \* state 58
     <<>>,  \* state 59
     <<>>,  \* state 60
     ("DateFrom" :> 91 @@ "VariableDate" :> 31 @@ "DateTo" :> 92),  \* state 61
     <<>>,  \* state 62
     <<>>,  \* state 63
     ("VariableDate" :> 36),  \* state 64
     <<>>,  \* state 65
     ("WeekSelector" :> 93),  \* state 66
     <<>>,  \* state 67
     <<>>,  \* state 68
     <<>>,  \* state 69
     <<>>,  \* state 70
     <<>>,  \* state 71
     <<>>,  \* state 72
     <<>>,  \* state 73
     <<>>,  \* state 74
     <<>>,  \* state 75
     <<>>,  \* state 76
     <<>>,  \* state 77
     <<>>,  \* state 78
     <<>>,  \* state 79
     <<>>,  \* state 80
     <<>>,  \* state 81
     <<>>,  \* state 82
     <<>>,  \* state 83
     <<>>,  \* state 84
     <<>>,  \* state 85
     <<>>,  \* state 86
     <<>>,  \* state 87
     ("VariableDate" :> 36),  \* state 88
     <<>>,  \* state 89
     <<>>,  \* state 90
     <<>>,  \* state 91
     <<>>,  \* state 92
     <<>>,  \* state 93
     <<>>,  \* state 94
     <<>>,  \* state 95
     <<>>,  \* state 96
     <<>>,  \* state 97
     <<>>,  \* state 98
     ("Holiday" :> 83),  \* state 99
     ("WeekdayRange" :> 80),  \* state 100
     <<>>,  \* state 101
     <<>>,  \* state 102
     <<>>,  \* state 103
     <<>> >>  \* state 104

\* The state whose item is $accept: Ruleset . $end
YYFINAL == 13
-----------------------------------------------------------------------------
(* Semantic values: the %union of the parser. A value is a record with the *)
(* one field of the union member it holds.                                 *)

\* struct Time { event, hour, minute }
MkTime(h, m, e) == [hour |-> h, minute |-> m, event |-> e]

\* The tokens declared without a semantic type.
PlainTokens ==
  { "T_NORMAL_RULE_SEPARATOR", "T_ADDITIONAL_RULE_SEPARATOR", "T_FALLBACK_SEPARATOR",
    "T_24_7", "T_PLUS", "T_MINUS", "T_SLASH", "T_COLON", "T_COMMA",
    "T_LBRACKET", "T_RBRACKET", "T_LPAREN", "T_RPAREN", "T_PH", "T_SH",
    "T_KEYWORD_DAY", "T_KEYWORD_WEEK", "T_EASTER", "T_INVALID" }

\* A uint32_t or int32_t value is the integer with the same 32 bits in
\* two's complement: as a uint32_t, n >= 0 stands for n and n < 0 for
\* n + 2^32; as an int32_t, n stands for itself.
MinInt32 == (0 - 2147483647) - 1

\* The values the lexer delivers with the typed tokens.
WeekdayValues == {0, 1}
MonthValues == {12}
IntegerValues == {13, 45}
StateValues == {"Open", "Closed", "Unknown"}
HourMinuteValues == { MkTime(6, 0, "NoEvent"), MkTime(18, 0, "NoEvent"), MkTime(24, 0, "NoEvent") }
EventValues == { MkTime(0, 0, "Sunrise") }
CommentValues == { "by appointment" }

\* A token as yylex returns it: its type and, for a typed token, the value
\* it stores in yylval.
Tokens ==
  [type : PlainTokens]
    \cup [type : {"T_WEEKDAY"}, num : WeekdayValues]
    \cup [type : {"T_MONTH"}, num : MonthValues]
    \cup [type : {"T_INTEGER"}, num : IntegerValues]
    \cup [type : {"T_STATE"}, state : StateValues]
    \cup [type : {"T_EXTENDED_HOUR_MINUTE"}, time : HourMinuteValues]
    \cup [type : {"T_EVENT"}, time : EventValues]
    \cup [type : {"T_COMMENT"}, strRef : CommentValues]

YYEOF == [type |-> "$end"]
YYEMPTY == [type |-> "YYEMPTY"]

\* The union member a token writes; a plain token writes nothing.
TokenValue(tok, old) ==
  IF "num" \in DOMAIN tok THEN [num |-> tok.num]
  ELSE IF "state" \in DOMAIN tok THEN [state |-> tok.state]
  ELSE IF "time" \in DOMAIN tok THEN [time |-> tok.time]
  ELSE IF "strRef" \in DOMAIN tok THEN [strRef |-> tok.strRef]
  ELSE old

\* Token constructors, and expressions of the tests and of the documentation
\* as the token streams the lexer delivers for them; the lexer delivers
\* these beyond MaxTokens tokens.
Plain(t) == [type |-> t]
Weekday(n) == [type |-> "T_WEEKDAY", num |-> n]
Month(n) == [type |-> "T_MONTH", num |-> n]
Integer(n) == [type |-> "T_INTEGER", num |-> n]
State(s) == [type |-> "T_STATE", state |-> s]
HourMinute(h, m) == [type |-> "T_EXTENDED_HOUR_MINUTE", time |-> MkTime(h, m, "NoEvent")]
Event(e) == [type |-> "T_EVENT", time |-> MkTime(0, 0, e)]
Comment(s) == [type |-> "T_COMMENT", strRef |-> s]

Examples ==
  { \* Mo,Tu,Th,Fr
    << Weekday(0), Plain("T_COMMA"), Weekday(1), Plain("T_COMMA"), Weekday(3),
       Plain("T_COMMA"), Weekday(4) >>,
    \* Dec 24,Dec 25,Dec 26
    << Month(12), Integer(24), Plain("T_COMMA"), Month(12), Integer(25),
       Plain("T_COMMA"), Month(12), Integer(26) >>,
    \* 08:00-12:00,13:00-17:00,18:00-20:00
    << HourMinute(8, 0), Plain("T_MINUS"), HourMinute(12, 0), Plain("T_COMMA"),
       HourMinute(13, 0), Plain("T_MINUS"), HourMinute(17, 0), Plain("T_COMMA"),
       HourMinute(18, 0), Plain("T_MINUS"), HourMinute(20, 0) >>,
    \* week 1,2,3
    << Plain("T_KEYWORD_WEEK"), Integer(1), Plain("T_COMMA"), Integer(2),
       Plain("T_COMMA"), Integer(3) >>,
    \* week 45-13
    << Plain("T_KEYWORD_WEEK"), Integer(45), Plain("T_MINUS"), Integer(13) >>,
    \* PH off || open
    << Plain("T_PH"), State("Closed"), Plain("T_FALLBACK_SEPARATOR"), State("Open") >>,
    \* Mo-Fr 08:00-12:00,13:00-17:30; Sa 08:00-12:00; PH off
    << Weekday(0), Plain("T_MINUS"), Weekday(4), HourMinute(8, 0), Plain("T_MINUS"),
       HourMinute(12, 0), Plain("T_COMMA"), HourMinute(13, 0), Plain("T_MINUS"),
       HourMinute(17, 30), Plain("T_NORMAL_RULE_SEPARATOR"), Weekday(5), HourMinute(8, 0),
       Plain("T_MINUS"), HourMinute(12, 0), Plain("T_NORMAL_RULE_SEPARATOR"),
       Plain("T_PH"), State("Closed") >>,
    \* Mo-Fr 08:00-12:00, We 14:00-18:00; Su,PH off
    << Weekday(0), Plain("T_MINUS"), Weekday(4), HourMinute(8, 0), Plain("T_MINUS"),
       HourMinute(12, 0), Plain("T_ADDITIONAL_RULE_SEPARATOR"), Weekday(2),
       HourMinute(14, 0), Plain("T_MINUS"), HourMinute(18, 0),
       Plain("T_NORMAL_RULE_SEPARATOR"), Weekday(6), Plain("T_COMMA"), Plain("T_PH"),
       State("Closed") >>,
    \* PH,SH,PH
    << Plain("T_PH"), Plain("T_COMMA"), Plain("T_SH"), Plain("T_COMMA"), Plain("T_PH") >>,
    \* Mo-Sa 08:00-13:00,14:00-17:00 || "by appointment"
    << Weekday(0), Plain("T_MINUS"), Weekday(5), HourMinute(8, 0), Plain("T_MINUS"),
       HourMinute(13, 0), Plain("T_COMMA"), HourMinute(14, 0), Plain("T_MINUS"),
       HourMinute(17, 0), Plain("T_FALLBACK_SEPARATOR"), Comment("by appointment") >>,
    \* 10:00-12:00,12:30-15:00,sunrise-sunset
    << HourMinute(10, 0), Plain("T_MINUS"), HourMinute(12, 0), Plain("T_COMMA"),
       HourMinute(12, 30), Plain("T_MINUS"), HourMinute(15, 0), Plain("T_COMMA"),
       Event("Sunrise"), Plain("T_MINUS"), Event("Sunset") >>,
    \* PH -1 day
    << Plain("T_PH"), Plain("T_MINUS"), Integer(1), Plain("T_KEYWORD_DAY") >>,
    \* PH +1 day
    << Plain("T_PH"), Plain("T_PLUS"), Integer(1), Plain("T_KEYWORD_DAY") >>,
    \* PH +2147483648 days
    << Plain("T_PH"), Plain("T_PLUS"), Integer(MinInt32), Plain("T_KEYWORD_DAY") >>,
    \* PH -4294967295 days
    << Plain("T_PH"), Plain("T_MINUS"), Integer(0 - 1), Plain("T_KEYWORD_DAY") >>,
    \* easter +1 day
    << Plain("T_EASTER"), Plain("T_PLUS"), Integer(1), Plain("T_KEYWORD_DAY") >>,
    \* easter -2 days
    << Plain("T_EASTER"), Plain("T_MINUS"), Integer(2), Plain("T_KEYWORD_DAY") >> }

IsPrefix(s, t) == Len(s) <= Len(t) /\ SubSeq(t, 1, Len(s)) = s

\* The tokens the lexer can deliver after the tokens toks.
NextTokens(toks) ==
  (IF Len(toks) < MaxTokens THEN Tokens ELSE {})
    \cup { e[Len(toks) + 1] : e \in { x \in Examples : Len(toks) < Len(x) /\ IsPrefix(toks, x) } }

-----------------------------------------------------------------------------
(* The objects the semantic actions build. A pointer is a sequence: <<>> is *)
(* nullptr and <<x>> points to x, so a selector chain is a nested record.  *)

Ptr(x) == <<x>>
nullptr == <<>>

\* new Timespan
NewTimespan ==
  [begin |-> MkTime(0, 0, "NoEvent"), end |-> MkTime(0, 0, "NoEvent"), next |-> nullptr]

\* new WeekdayRange
NewWeekdayRange ==
  [beginDay |-> 0, endDay |-> 0, nthMask |-> 0, offset |-> 0,
   holiday |-> "NoHoliday", next |-> nullptr, next2 |-> nullptr]

\* new Week
NewWeek == [beginWeek |-> 0, endWeek |-> 0, interval |-> 1, next |-> nullptr]

\* struct Date { year, month, day, variableDate }
MkDate(y, m, d, v) == [year |-> y, month |-> m, day |-> d, variableDate |-> v]

\* new MonthdayRange
NewMonthdayRange ==
  [begin |-> MkDate(0, 0, 0, "FixedDate"), end |-> MkDate(0, 0, 0, "FixedDate"),
   next |-> nullptr]

\* new Rule
NewRule ==
  [m_comment |-> "", m_state |-> "Open", m_timeSelector |-> nullptr,
   m_weekdaySelector |-> nullptr, m_weekSelector |-> nullptr,
   m_monthdaySelector |-> nullptr]

\* initSelectors(sels)
initSelectors ==
  [timeSelector |-> nullptr, weekdaySelector |-> nullptr,
   weekSelector |-> nullptr, monthdaySelector |-> nullptr]

\* applySelectors(sels, rule): every unique_ptr of the rule takes the pointer
applySelectors(sels, rule) ==
  [rule EXCEPT !.m_timeSelector = sels.timeSelector,
               !.m_weekdaySelector = sels.weekdaySelector,
               !.m_weekSelector = sels.weekSelector,
               !.m_monthdaySelector = sels.monthdaySelector]

\* Rule::setComment(str, len)
setComment(rule, str) == [rule EXCEPT !.m_comment = str]

\* p->next.reset(q) on the node p points to: the old tail is deleted
ResetNext(p, q) == Ptr([p[1] EXCEPT !.next = Ptr(q)])

\* The conversion of a uint32_t to int32_t keeps the 32 bits, and the
\* negation of a uint32_t is the negation modulo 2^32.
ToInt32(n) == n
NegToInt32(n) == IF n = MinInt32 THEN MinInt32 ELSE 0 - n

\* A semantic value read as a Time. Time: VariableTime has the default
\* action $$ = $1, and VariableTime has no declared type; for the forms in
\* parentheses $1 is the value of the token T_LPAREN, which is whatever
\* yylval held before: read as a Time it is that Time if it was one, and
\* any Time otherwise.
StaleTimes == HourMinuteValues \cup EventValues \cup {MkTime(0, 0, "NoEvent")}
AsTime(v) == IF "time" \in DOMAIN v THEN {v.time} ELSE StaleTimes

-----------------------------------------------------------------------------
(* The semantic actions of the grammar. SemanticAction(n, v) is the set of *)
(* values rule n can leave in $$ when its right-hand side has the values   *)
(* v[1], v[2], ...; before an action runs, bison sets $$ to $1.            *)

Sel(s) == [selectors |-> s]

SemanticAction(n, v) ==
  CASE n = 5 -> { [rule |-> applySelectors(v[1].selectors, NewRule)] }
    [] n = 6 -> { [rule |-> applySelectors(v[1].selectors, setComment(NewRule, v[2].strRef))] }
    [] n = 7 -> { [rule |-> applySelectors(v[1].selectors, [NewRule EXCEPT !.m_state = v[2].state])] }
    [] n = 8 -> { [rule |-> applySelectors(v[1].selectors,
                      [setComment(NewRule, v[3].strRef) EXCEPT !.m_state = v[2].state])] }
    [] n \in {9, 20, 71} -> { Sel(initSelectors) }
    [] n = 12 -> { Sel([v[1].selectors EXCEPT !.timeSelector = v[2].selectors.timeSelector,
                                              !.weekdaySelector = v[2].selectors.weekdaySelector,
                                              !.weekSelector = v[1].selectors.weekSelector]) }
    [] n = 16 -> { Sel([v[1].selectors EXCEPT !.monthdaySelector = v[2].selectors.monthdaySelector]) }
    [] n = 17 -> { Sel([v[1].selectors EXCEPT !.weekSelector = v[2].selectors.weekSelector]) }
    [] n = 18 -> { Sel([v[1].selectors EXCEPT !.monthdaySelector = v[1].selectors.monthdaySelector,
                                              !.weekSelector = v[2].selectors.weekSelector]) }
    [] n = 19 -> { Sel([v[1].selectors EXCEPT !.monthdaySelector = v[2].selectors.monthdaySelector,
                                              !.weekSelector = v[3].selectors.weekSelector]) }
    [] n = 23 -> { Sel([v[1].selectors EXCEPT !.timeSelector = v[2].selectors.timeSelector,
                                              !.weekdaySelector = v[1].selectors.weekdaySelector]) }
    [] n = 24 -> { Sel([initSelectors EXCEPT !.timeSelector = Ptr(v[1].timespan)]) }
    [] n = 25 -> { Sel([v[1].selectors EXCEPT
                          !.timeSelector = ResetNext(v[1].selectors.timeSelector, v[3].timespan)]) }
    [] n = 26 -> { [timespan |-> [NewTimespan EXCEPT !.begin = t, !.end = t]] : t \in AsTime(v[1]) }
    [] n = 27 -> { [timespan |-> [NewTimespan EXCEPT !.begin = t]] : t \in AsTime(v[1]) }
    [] n = 28 -> { [timespan |-> [NewTimespan EXCEPT !.begin = t[1], !.end = t[2]]] :
                     t \in AsTime(v[1]) \X AsTime(v[3]) }
    [] n = 34 -> { Sel([initSelectors EXCEPT !.weekdaySelector = Ptr(v[1].weekdayRange)]) }
    [] n = 35 -> { Sel([initSelectors EXCEPT !.weekdaySelector = Ptr(v[1].weekdayRange)]) }
    [] n = 36 -> { Sel([initSelectors EXCEPT
                          !.weekdaySelector = ResetNext(Ptr(v[1].weekdayRange), v[3].weekdayRange)]) }
    [] n = 37 -> { Sel([initSelectors EXCEPT
                          !.weekdaySelector = ResetNext(Ptr(v[1].weekdayRange), v[3].weekdayRange)]) }
    [] n = 38 -> { Sel([initSelectors EXCEPT
                          !.weekdaySelector = Ptr([NewWeekdayRange EXCEPT
                                                     !.next = Ptr(v[1].weekdayRange),
                                                     !.next2 = Ptr(v[3].weekdayRange)])]) }
    [] n = 40 -> { [weekdayRange |-> ResetNext(Ptr(v[1].weekdayRange), v[3].weekdayRange)[1]] }
    [] n = 41 -> { [weekdayRange |-> [NewWeekdayRange EXCEPT !.beginDay = v[1].num]] }
    [] n = 42 -> { [weekdayRange |-> [NewWeekdayRange EXCEPT !.beginDay = v[1].num,
                                                             !.endDay = v[3].num]] }
    [] n = 44 -> { [weekdayRange |-> ResetNext(Ptr(v[1].weekdayRange), v[3].weekdayRange)[1]] }
    [] n = 45 -> { [weekdayRange |-> [NewWeekdayRange EXCEPT !.holiday = "PublicHoliday"]] }
    [] n = 46 -> { [weekdayRange |-> [NewWeekdayRange EXCEPT !.holiday = "PublicHoliday",
                                                             !.offset = v[2].offset]] }
    [] n = 47 -> { [weekdayRange |-> [NewWeekdayRange EXCEPT !.holiday = "SchoolHoliday"]] }
    [] n = 48 -> { [offset |-> ToInt32(v[2].num)] }
    [] n = 49 -> { [offset |-> NegToInt32(v[2].num)] }
    [] n = 50 -> { Sel([initSelectors EXCEPT !.weekSelector = Ptr(v[2].week)]) }
    [] n = 51 -> { Sel([v[1].selectors EXCEPT
                          !.weekSelector = ResetNext(v[1].selectors.weekSelector, v[3].week)]) }
    [] n = 52 -> { [week |-> [NewWeek EXCEPT !.beginWeek = v[1].num]] }
    [] n = 53 -> { [week |-> [NewWeek EXCEPT !.beginWeek = v[1].num, !.endWeek = v[3].num]] }
    [] n = 54 -> { [week |-> [NewWeek EXCEPT !.beginWeek = v[1].num, !.endWeek = v[3].num,
                                             !.interval = v[5].num]] }
    [] n = 55 -> { Sel([initSelectors EXCEPT !.monthdaySelector = Ptr(v[1].monthdayRange)]) }
    [] n = 56 -> { Sel([v[1].selectors EXCEPT
                          !.monthdaySelector = ResetNext(v[1].selectors.monthdaySelector,
                                                         v[3].monthdayRange)]) }
    [] n = 57 -> { [monthdayRange |-> [NewMonthdayRange EXCEPT
                                         !.begin = MkDate(0, v[1].num, 0, "FixedDate")]] }
    [] n = 58 -> { [monthdayRange |-> [NewMonthdayRange EXCEPT !.begin = v[1].date]] }
    [] n = 59 -> { [monthdayRange |-> [NewMonthdayRange EXCEPT !.begin = v[1].date]] }
    [] n = 60 -> { [monthdayRange |-> [NewMonthdayRange EXCEPT !.begin = v[1].date,
                                                               !.end = v[3].date]] }
    [] n = 64 -> { [date |-> MkDate(0, v[1].num, v[2].num, "FixedDate")] }
    [] n = 65 -> { [date |-> MkDate(v[1].num, v[2].num, v[3].num, "FixedDate")] }
    [] n = 67 -> { [date |-> [v[2].date EXCEPT !.year = v[1].num]] }
    [] n = 69 -> { [date |-> MkDate(0, 0, v[1].num, "FixedDate")] }
    [] n = 70 -> { [date |-> MkDate(0, 0, 0, "Easter")] }
    [] OTHER -> { v[1] }

-----------------------------------------------------------------------------
(* Dates and times as Qt represents them. A QTime is its number of         *)
(* milliseconds since midnight, -1 when it is invalid; a QDate is a day    *)
(* number; a QDateTime is a date and a time, or invalid.                   *)

NullTime == 0 - 1

\* QTime(h, m)
QTime(h, m) ==
  IF h \in 0..23 /\ m \in 0..59 THEN (h * 3600 + m * 60) * 1000 ELSE NullTime

InvalidDateTime == [isNull |-> TRUE]

\* QDateTime(date, time) for a valid date: an invalid time is midnight
QDateTime(date, time) ==
  [date |-> date, time |-> IF time = NullTime THEN 0 ELSE time]

isValid(dt) == "isNull" \notin DOMAIN dt

\* operator< and operator<= of two valid QDateTime
Before(a, b) == a.date < b.date \/ (a.date = b.date /\ a.time < b.time)
NotAfter(a, b) == a = b \/ Before(a, b)

\* The instants a caller passes.
DtHours == {0, 12, 18, 21}
Instants == { QDateTime(d, QTime(h, 0)) : d \in 0..MaxDay, h \in DtHours }

-----------------------------------------------------------------------------
(* Interval (interval.h)                                                   *)

\* Interval::Interval()
DefaultInterval ==
  [begin |-> InvalidDateTime, end |-> InvalidDateTime, state |-> "Invalid", comment |-> ""]

\* contains with the end of the interval included
Interval_contains_ClosedEnd(iv, dt) ==
  IF isValid(iv.begin) /\ isValid(iv.end) THEN NotAfter(iv.begin, dt) /\ NotAfter(dt, iv.end)
  ELSE IF isValid(iv.begin) THEN NotAfter(iv.begin, dt)
  ELSE IF isValid(iv.end) THEN NotAfter(dt, iv.end)
  ELSE TRUE

\* Interval::contains(dt)
Interval_contains(iv, dt) ==
  IF isValid(iv.begin) /\ isValid(iv.end) THEN NotAfter(iv.begin, dt) /\ Before(dt, iv.end)
  ELSE IF isValid(iv.begin) THEN NotAfter(iv.begin, dt)
  ELSE IF isValid(iv.end) THEN Before(dt, iv.end)
  ELSE TRUE

-----------------------------------------------------------------------------
(* Rule and its selectors (rule.cpp)                                       *)

\* requiredCapabilities of the first timespan alone
Timespan_requiredCapabilities_HeadOnly(ts) ==
  IF ts.begin.event # "NoEvent" \/ ts.end.event # "NoEvent" THEN {"Location"} ELSE {}

RECURSIVE Timespan_requiredCapabilities(_)
\* Timespan::requiredCapabilities(): a capability bitmask is the set of its bits
Timespan_requiredCapabilities(ts) ==
  IF ts.begin.event # "NoEvent" \/ ts.end.event # "NoEvent" THEN {"Location"}
  ELSE IF ts.next # nullptr THEN Timespan_requiredCapabilities(ts.next[1])
  ELSE {}

\* Timespan::nextInterval(interval)
Timespan_nextInterval(ts, interval) ==
  [interval EXCEPT
     !.begin = QDateTime(interval.begin.date, QTime(ts.begin.hour, ts.begin.minute)),
     !.end = QDateTime(interval.begin.date, QTime(ts.end.hour, ts.end.minute))]

RECURSIVE WeekdayRange_requiredCapabilities(_)
\* WeekdayRange::requiredCapabilities()
WeekdayRange_requiredCapabilities(wr) ==
  CASE wr.holiday = "NoHoliday" ->
         (IF wr.next # nullptr THEN WeekdayRange_requiredCapabilities(wr.next[1]) ELSE {})
           \cup (IF wr.next2 # nullptr THEN WeekdayRange_requiredCapabilities(wr.next2[1]) ELSE {})
    [] wr.holiday = "PublicHoliday" -> {"PublicHoliday"}
    [] wr.holiday = "SchoolHoliday" -> {"SchoolHoliday"}
    [] OTHER -> {"NotImplemented"}

\* Rule::requiredCapabilities()
Rule_requiredCapabilities(rule) ==
  (IF rule.m_timeSelector # nullptr
     THEN Timespan_requiredCapabilities(rule.m_timeSelector[1]) ELSE {})
    \cup (IF rule.m_weekdaySelector # nullptr
            THEN WeekdayRange_requiredCapabilities(rule.m_weekdaySelector[1]) ELSE {})

\* nextInterval without the state of the rule set on the interval
Rule_nextInterval_StateNotSet(rule, dt) ==
  LET i0 == [DefaultInterval EXCEPT !.begin = QDateTime(dt.date, NullTime),
                                    !.end = QDateTime(dt.date, NullTime)]
  IN IF rule.m_timeSelector # nullptr
       THEN Timespan_nextInterval(rule.m_timeSelector[1], i0) ELSE i0

\* Rule::nextInterval(dt)
Rule_nextInterval(rule, dt) ==
  LET i0 == [DefaultInterval EXCEPT !.begin = QDateTime(dt.date, NullTime),
                                    !.end = QDateTime(dt.date, NullTime)]
      i1 == IF rule.m_timeSelector # nullptr
              THEN Timespan_nextInterval(rule.m_timeSelector[1], i0) ELSE i0
  IN [i1 EXCEPT !.state = rule.m_state]


-----------------------------------------------------------------------------
(* Validation of a parsed expression: the fold of the required             *)
(* capabilities of its rules and the error it maps to. No holiday region   *)
(* and no location is set on the expression.                               *)

RECURSIVE Expression_requiredCapabilities(_)
\* The capabilities of the rules of an expression, folded.
Expression_requiredCapabilities(rules) ==
  IF rules = <<>> THEN {}
  ELSE Rule_requiredCapabilities(Head(rules)) \cup Expression_requiredCapabilities(Tail(rules))

\* The errors validation can report for a capability set; the order in
\* which the capabilities are looked at is left open.
ValidationErrors(c) ==
  LET errors ==
        (IF c \cap {"NotImplemented", "SchoolHoliday"} # {} THEN {"UnsupportedFeature"} ELSE {})
          \cup (IF "PublicHoliday" \in c THEN {"MissingRegion"} ELSE {})
          \cup (IF "Location" \in c THEN {"MissingLocation"} ELSE {})
  IN IF errors = {} THEN {"NoError"} ELSE errors
-----------------------------------------------------------------------------
(* The state of one parse: OpeningHours::setExpression runs yyparse on the *)
(* expression, and the expression keeps the rules and the error.           *)

VARIABLES
  yyss,      \* the state stack of yyparse
  yyvs,      \* the semantic value stack of yyparse
  yychar,    \* the lookahead token, YYEMPTY when none has been read
  yylval,    \* the semantic value of the lookahead token
  tokens,    \* the tokens yylex has delivered so far (history)
  yyresult,  \* "running", then "accepted" (yyparse returns 0) or "aborted" (1)
  m_rules,   \* OpeningHoursPrivate::m_rules
  m_error,   \* OpeningHoursPrivate::m_error
  call,      \* the last call on a rule of the parsed expression and its result
  i,         \* an Interval object of a caller
  contained  \* the call of contains on i since i was last set, and its result

parserVars == <<yyss, yyvs, yychar, yylval, tokens, yyresult, m_rules, m_error>>

yystate == yyss[Len(yyss)]

\* yypact_value_is_default: the state has no action that depends on the
\* lookahead, so yyparse takes the default reduction without reading one.
DefaultOnly(s) ==
  /\ DOMAIN yyshift[s + 1] = {}
  /\ DOMAIN yyreduce[s + 1] = {}
  /\ s # YYFINAL

\* The rule yyparse reduces by in state s with lookahead token type t, 0 if
\* it does not reduce.
ReduceRule(s, t) ==
  IF t \in DOMAIN yyshift[s + 1] \/ (s = YYFINAL /\ t = "$end") THEN 0
  ELSE IF t \in DOMAIN yyreduce[s + 1] THEN yyreduce[s + 1][t]
  ELSE yydefact[s + 1]

\* OpeningHoursPrivate::addRule(rule)
addRule(rules, rule) == Append(rules, rule)

ParserInit ==
  /\ yyss = <<0>>
  /\ yyvs = <<[undef |-> TRUE]>>
  /\ yychar = YYEMPTY
  /\ yylval = [undef |-> TRUE]
  /\ tokens = <<>>
  /\ yyresult = "running"
  /\ m_rules = <<>>
  /\ m_error = "NoError"
  /\ call = [op |-> "none"]

\* yychar = yylex(&yylval, &yylloc, scanner): the lexer delivers the next
\* token of the expression, or the end of the input.
yylex ==
  /\ yyresult = "running"
  /\ yychar = YYEMPTY
  /\ ~DefaultOnly(yystate)
  /\ \E tok \in NextTokens(tokens) \cup {YYEOF} :
       /\ yychar' = tok
       /\ yylval' = TokenValue(tok, yylval)
       /\ tokens' = Append(tokens, tok)
  /\ UNCHANGED <<yyss, yyvs, yyresult, m_rules, m_error, call, i, contained>>

\* Shift the lookahead token.
yyshiftToken ==
  /\ yyresult = "running"
  /\ yychar # YYEMPTY
  /\ yychar.type \in DOMAIN yyshift[yystate + 1]
  /\ yyss' = Append(yyss, yyshift[yystate + 1][yychar.type])
  /\ yyvs' = Append(yyvs, yylval)
  /\ yychar' = YYEMPTY
  /\ UNCHANGED <<yylval, tokens, yyresult, m_rules, m_error, call, i, contained>>

\* Reduce by a rule: run its action, pop its right-hand side, push the state
\* the automaton goes to on its left-hand side.
yyreduceRule ==
  /\ yyresult = "running"
  /\ \/ DefaultOnly(yystate)
     \/ yychar # YYEMPTY
  /\ LET n == IF DefaultOnly(yystate) THEN yydefact[yystate + 1]
              ELSE ReduceRule(yystate, yychar.type)
         len == yyr2[n + 1]
         v == SubSeq(yyvs, Len(yyvs) - len + 1, Len(yyvs))
         ss == SubSeq(yyss, 1, Len(yyss) - len)
     IN /\ n # 0
        /\ \E val \in SemanticAction(n, v) :
             yyvs' = Append(SubSeq(yyvs, 1, Len(yyvs) - len), val)
        /\ yyss' = Append(ss, yygoto[ss[Len(ss)] + 1][yyr1[n + 1]])
        /\ m_rules' = IF n \in {1, 2, 3} THEN addRule(m_rules, v[len].rule) ELSE m_rules
  /\ UNCHANGED <<yychar, yylval, tokens, yyresult, m_error, call, i, contained>>

\* YYACCEPT: the end of the input in the final state.
yyaccept ==
  /\ yyresult = "running"
  /\ yystate = YYFINAL
  /\ yychar = YYEOF
  /\ yyresult' = "accepted"
  /\ UNCHANGED <<yyss, yyvs, yychar, yylval, tokens, m_rules, m_error, call, i, contained>>

\* A syntax error that leaves the error of the expression as it was.
yyerror_ErrorNotSet ==
  /\ yyresult = "running"
  /\ yychar # YYEMPTY
  /\ ~DefaultOnly(yystate)
  /\ yychar.type \notin DOMAIN yyshift[yystate + 1]
  /\ ~(yystate = YYFINAL /\ yychar = YYEOF)
  /\ ReduceRule(yystate, yychar.type) = 0
  /\ yyresult' = "aborted"
  /\ yyss' = <<>>
  /\ yyvs' = <<>>
  /\ UNCHANGED <<yychar, yylval, tokens, m_rules, m_error, call, i, contained>>

\* No action for the lookahead token: yyparse calls yyerror, and since the
\* grammar has no error rule it pops the whole stack and returns 1.
yyerror ==
  /\ yyresult = "running"
  /\ yychar # YYEMPTY
  /\ ~DefaultOnly(yystate)
  /\ yychar.type \notin DOMAIN yyshift[yystate + 1]
  /\ ~(yystate = YYFINAL /\ yychar = YYEOF)
  /\ ReduceRule(yystate, yychar.type) = 0
  /\ m_error' = "SyntaxError"
  /\ yyresult' = "aborted"
  /\ yyss' = <<>>
  /\ yyvs' = <<>>
  /\ UNCHANGED <<yychar, yylval, tokens, m_rules, call, i, contained>>

-----------------------------------------------------------------------------
(* A call on a rule of a parsed expression: one call in a run, on any rule *)
(* and with any argument.                                                  *)

\* rule->requiredCapabilities() on a rule of the expression
requiredCapabilities ==
  /\ yyresult = "accepted"
  /\ call.op = "none"
  /\ \E k \in 1..Len(m_rules) :
       call' = [op |-> "requiredCapabilities", rule |-> k,
                result |-> Rule_requiredCapabilities(m_rules[k])]
  /\ UNCHANGED <<parserVars, i, contained>>

\* rule->nextInterval(dt) on a rule of the expression
nextInterval ==
  /\ yyresult = "accepted"
  /\ call.op = "none"
  /\ \E k \in 1..Len(m_rules), dt \in Instants :
       call' = [op |-> "nextInterval", rule |-> k, dt |-> dt,
                result |-> Rule_nextInterval(m_rules[k], dt)]
  /\ UNCHANGED <<parserVars, i, contained>>

\* Validation of the expression after a parse without syntax error
validate ==
  /\ yyresult = "accepted"
  /\ call.op = "none"
  /\ \E err \in ValidationErrors(Expression_requiredCapabilities(m_rules)) :
       /\ m_error' = err
       /\ call' = [op |-> "validate", result |-> err]
  /\ UNCHANGED <<yyss, yyvs, yychar, yylval, tokens, yyresult, m_rules, i, contained>>

-----------------------------------------------------------------------------
(* Calls on an Interval object.                                            *)

\* Interval::setBegin(begin)
setBegin ==
  /\ \E dt \in Instants \cup {InvalidDateTime} : i' = [i EXCEPT !.begin = dt]
  /\ contained' = [called |-> FALSE]
  /\ UNCHANGED <<parserVars, call>>

\* Interval::setEnd(end)
setEnd ==
  /\ \E dt \in Instants \cup {InvalidDateTime} : i' = [i EXCEPT !.end = dt]
  /\ contained' = [called |-> FALSE]
  /\ UNCHANGED <<parserVars, call>>

\* Interval::contains(dt)
contains ==
  /\ \E dt \in Instants :
       contained' = [called |-> TRUE, dt |-> dt, result |-> Interval_contains(i, dt)]
  /\ UNCHANGED <<parserVars, call, i>>

-----------------------------------------------------------------------------
vars == <<yyss, yyvs, yychar, yylval, tokens, yyresult, m_rules, m_error, call, i, contained>>

Init ==
  /\ ParserInit
  /\ i = DefaultInterval
  /\ contained = [called |-> FALSE]

\* Parsing an expression and evaluating its rules.
Next ==
  \/ yylex
  \/ yyshiftToken
  \/ yyreduceRule
  \/ yyaccept
  \/ yyerror
  \/ requiredCapabilities
  \/ nextInterval
  \/ validate

Spec == Init /\ [][Next]_vars

-----------------------------------------------------------------------------
(* A caller that makes several calls on the rules of one expression. call  *)
(* keeps the rules as the parser built them and the calls made so far with *)
(* what they returned.                                                     *)

\* The tokens that continue toks to an expression of the tests.
NextExampleTokens(toks) ==
  { e[Len(toks) + 1] : e \in { x \in Examples : Len(toks) < Len(x) /\ IsPrefix(toks, x) } }

\* yylex for an expression of the tests
yylexExample ==
  /\ yyresult = "running"
  /\ yychar = YYEMPTY
  /\ ~DefaultOnly(yystate)
  /\ \E tok \in NextExampleTokens(tokens) \cup {YYEOF} :
       /\ yychar' = tok
       /\ yylval' = TokenValue(tok, yylval)
       /\ tokens' = Append(tokens, tok)
  /\ UNCHANGED <<yyss, yyvs, yyresult, m_rules, m_error, call, i, contained>>

\* The calls made so far and the rules before the first of them.
Returned == IF call.op = "calls" THEN call.returned ELSE {}
Built == IF call.op = "calls" THEN call.built ELSE m_rules

\* nextInterval that keeps the rule it was called on as closed
nextIntervalCall_RuleChanged ==
  /\ yyresult = "accepted"
  /\ Cardinality(Returned) < MaxCalls
  /\ \E k \in 1..Len(m_rules), dt \in Instants :
       /\ call' = [op |-> "calls", built |-> Built,
                   returned |-> Returned \cup
                     {[op |-> "nextInterval", rule |-> k, dt |-> dt,
                       result |-> Rule_nextInterval(m_rules[k], dt)]}]
       /\ m_rules' = [m_rules EXCEPT ![k].m_state = "Closed"]
  /\ UNCHANGED <<yyss, yyvs, yychar, yylval, tokens, yyresult, m_error, i, contained>>

\* rule->requiredCapabilities(), one of several calls
requiredCapabilitiesCall ==
  /\ yyresult = "accepted"
  /\ Cardinality(Returned) < MaxCalls
  /\ \E k \in 1..Len(m_rules) :
       call' = [op |-> "calls", built |-> Built,
                returned |-> Returned \cup
                  {[op |-> "requiredCapabilities", rule |-> k,
                    result |-> Rule_requiredCapabilities(m_rules[k])]}]
  /\ UNCHANGED <<parserVars, i, contained>>

\* rule->nextInterval(dt), one of several calls
nextIntervalCall ==
  /\ yyresult = "accepted"
  /\ Cardinality(Returned) < MaxCalls
  /\ \E k \in 1..Len(m_rules), dt \in Instants :
       call' = [op |-> "calls", built |-> Built,
                returned |-> Returned \cup
                  {[op |-> "nextInterval", rule |-> k, dt |-> dt,
                    result |-> Rule_nextInterval(m_rules[k], dt)]}]
  /\ UNCHANGED <<parserVars, i, contained>>

NextCalls ==
  \/ yylexExample
  \/ yyshiftToken
  \/ yyreduceRule
  \/ yyaccept
  \/ yyerror
  \/ requiredCapabilitiesCall
  \/ nextIntervalCall

SpecCalls == Init /\ [][NextCalls]_vars

\* A caller working on an Interval.
NextInterval == setBegin \/ setEnd \/ contains

SpecInterval == Init /\ [][NextInterval]_vars

-----------------------------------------------------------------------------
(* Derivation in the grammar, independent of the automaton: Derives(X, s)  *)
(* holds iff the symbol X derives the sequence s of token types. No rule   *)
(* has an empty right-hand side, so a symbol derives a sequence from its   *)
(* shorter parts (rules of two symbols or more) or from the whole of it    *)
(* (rules of one symbol).                                                  *)

\* The rules with a right-hand side of one symbol add to a set N of symbols
\* the symbols that derive one of N.
RECURSIVE UnitClosure(_)
UnitClosure(N) ==
  LET M == N \cup { yyr1[n] : n \in { m \in 2..Len(yyr1) :
                                       Len(yyrhs[m]) = 1 /\ yyrhs[m][1] \in N } }
  IN IF M = N THEN N ELSE UnitClosure(M)

\* alpha derives the l symbols of s from position p on, where t[<<q, k>>]
\* is the set of symbols that derive the k symbols from position q on.
RECURSIVE SeqDerives(_, _, _, _)
SeqDerives(t, alpha, p, l) ==
  IF Len(alpha) > l THEN FALSE
  ELSE IF Len(alpha) = 1 THEN alpha[1] \in t[<<p, l>>]
  ELSE \E k \in 1..(l - Len(alpha) + 1) :
         /\ alpha[1] \in t[<<p, k>>]
         /\ SeqDerives(t, Tail(alpha), p + k, l - k)

\* The table of the symbols deriving every part of s of at most l symbols.
RECURSIVE DerivationTable(_, _)
DerivationTable(s, l) ==
  IF l = 0 THEN <<>>
  ELSE LET t == DerivationTable(s, l - 1)
       IN t @@ [ q \in { <<p, l>> : p \in 1..(Len(s) - l + 1) } |->
                  UnitClosure((IF l = 1 THEN {s[q[1]]} ELSE {})
                    \cup { yyr1[n] : n \in { m \in 2..Len(yyr1) :
                             /\ Len(yyrhs[m]) >= 2
                             /\ SeqDerives(t, yyrhs[m], q[1], l) } }) ]

Derives(X, s) == s # <<>> /\ X \in DerivationTable(s, Len(s))[<<1, Len(s)>>]

-----------------------------------------------------------------------------
(* The expression as written: the tokens delivered before the end of input *)

Done == yyresult \in {"accepted", "aborted"}

Stream ==
  IF tokens # <<>> /\ tokens[Len(tokens)] = YYEOF
    THEN SubSeq(tokens, 1, Len(tokens) - 1) ELSE tokens

Types(s) == [k \in 1..Len(s) |-> s[k].type]

Count(s, types) == Cardinality({ k \in 1..Len(s) : s[k].type \in types })

-----------------------------------------------------------------------------
(* C1: Interval::contains                                                  *)

\* The position of a valid instant on the time line, in milliseconds.
Msecs(dt) == dt.date * 86400000 + dt.time

\* C1: after any sequence of setBegin and setEnd calls, contains(dt) holds
\* iff (the begin is open or begin <= dt) and (the end is open or dt < end).
C1_ContainsHalfOpen ==
  contained.called =>
    (contained.result <=>
       /\ (~isValid(i.begin) \/ Msecs(i.begin) <= Msecs(contained.dt))
       /\ (~isValid(i.end) \/ Msecs(contained.dt) < Msecs(i.end)))

\* contains was called with the end of an interval that has a begin and a
\* later end, after setBegin and setEnd, and the end is not contained.
C1_Witness ==
  /\ contained.called
  /\ isValid(i.begin) /\ isValid(i.end) /\ Before(i.begin, i.end)
  /\ contained.dt = i.end
  /\ ~contained.result

-----------------------------------------------------------------------------
(* C2: Rule::nextInterval and the instant it is asked for                  *)

\* C2: for a rule with a time selector, the interval nextInterval(dt)
\* returns ends later than dt.
C2_NextIntervalEndsAfterDt ==
  (call.op = "nextInterval" /\ m_rules[call.rule].m_timeSelector # nullptr)
    => Before(call.dt, call.result.end)

-----------------------------------------------------------------------------
(* C3: syntax errors                                                       *)

\* C3: when parsing has finished and the grammar does not derive the token
\* stream, in particular when the stream has a T_INVALID token, the error
\* of the expression is SyntaxError.
C3_SyntaxError ==
  (Done /\ call.op = "none") =>
    \/ m_error = "SyntaxError"
    \/ /\ yyresult = "accepted"
       /\ \A k \in 1..Len(tokens) : tokens[k].type # "T_INVALID"
       /\ Derives("Ruleset", Types(Stream))

\* A parse that ended on a T_INVALID token after a rule had been read.
C3_Witness ==
  /\ yyresult = "aborted"
  /\ Len(tokens) >= 2
  /\ tokens[Len(tokens)].type = "T_INVALID"
  /\ m_error = "SyntaxError"

-----------------------------------------------------------------------------
(* Selector chains and rule lists                                          *)

\* The nodes of the chain a pointer heads, in the order of the next pointers.
RECURSIVE Chain(_)
Chain(p) == IF p = nullptr THEN <<>> ELSE <<p[1]>> \o Chain(p[1].next)

\* The nodes of a weekday selector: a node, then what next and next2 head.
RECURSIVE WeekdayNodes(_)
WeekdayNodes(p) ==
  IF p = nullptr THEN <<>>
  ELSE <<p[1]>> \o WeekdayNodes(p[1].next) \o WeekdayNodes(p[1].next2)

RuleSeparators ==
  {"T_NORMAL_RULE_SEPARATOR", "T_ADDITIONAL_RULE_SEPARATOR", "T_FALLBACK_SEPARATOR"}

\* The number of selector nodes of a rule and of selectors it has.
SelectorNodes(r) ==
  Len(Chain(r.m_timeSelector)) + Len(WeekdayNodes(r.m_weekdaySelector))
    + Len(Chain(r.m_weekSelector)) + Len(Chain(r.m_monthdaySelector))

Selectors(r) ==
  Cardinality({ p \in {"t", "wd", "w", "m"} :
                  CASE p = "t" -> r.m_timeSelector # nullptr
                    [] p = "wd" -> r.m_weekdaySelector # nullptr
                    [] p = "w" -> r.m_weekSelector # nullptr
                    [] p = "m" -> r.m_monthdaySelector # nullptr })

\* The expression is a list of weekdays: Mo,Tu,Th
IsWeekdayList(s) ==
  /\ Len(s) % 2 = 1
  /\ \A k \in 1..Len(s) : s[k].type = (IF k % 2 = 1 THEN "T_WEEKDAY" ELSE "T_COMMA")

\* C4: a selector chain written as n comma-separated ranges is parsed to a
\* chain of n nodes in source order. For an expression of one rule, every
\* T_COMMA joins two ranges of one chain, so the rule has as many nodes as
\* the expression has commas and selectors; and a list of weekdays is
\* parsed to the chain of these weekdays.
C4_ChainKeepsEveryRange ==
  (yyresult = "accepted" /\ Count(Stream, RuleSeparators) = 0) =>
    /\ Len(m_rules) = 1
    /\ SelectorNodes(m_rules[1]) = Count(Stream, {"T_COMMA"}) + Selectors(m_rules[1])
    /\ IsWeekdayList(Stream) =>
         LET chain == Chain(m_rules[1].m_weekdaySelector)
         IN /\ Len(chain) = (Len(Stream) + 1) \div 2
            /\ \A k \in 1..Len(chain) : chain[k].beginDay = Stream[2 * k - 1].num

\* C5: after parsing a ruleset of n rules, the rule list holds n rules: one
\* for the first clause and one for the clause after every rule separator.
C5_OneRulePerClause ==
  yyresult = "accepted" => Len(m_rules) = 1 + Count(Stream, RuleSeparators)

\* PH off || open
PHOffFallbackOpen ==
  << Plain("T_PH"), State("Closed"), Plain("T_FALLBACK_SEPARATOR"), State("Open") >>

\* C6: a full rule written after '||' is accepted and added: PH off || open
\* parses to two rules.
C6_FallbackRuleAccepted ==
  (Done /\ Stream = PHOffFallbackOpen) => (yyresult = "accepted" /\ Len(m_rules) = 2)

\* The rule a stand-alone comment stands for.
CommentRule(c) == setComment(NewRule, c)

\* C7: a stand-alone comment, as the whole expression or after '||', is
\* accepted without SyntaxError and becomes a rule of its own with no
\* selectors, state Open and that comment.
C7_StandAloneComment ==
  LET n == Len(Stream)
  IN /\ (Done /\ n = 1 /\ Stream[1].type = "T_COMMENT") =>
          (yyresult = "accepted" /\ m_rules = <<CommentRule(Stream[1].strRef)>>)
     /\ (yyresult = "accepted" /\ n >= 2 /\ Stream[n].type = "T_COMMENT"
           /\ Stream[n - 1].type = "T_FALLBACK_SEPARATOR") =>
          (m_rules # <<>> /\ m_rules[Len(m_rules)] = CommentRule(Stream[n].strRef))

\* C8: the required capabilities of a rule have PublicHoliday iff some
\* element of its weekday selector is PH, and SchoolHoliday iff some
\* element is SH.
C8_HolidayCapabilities ==
  call.op = "requiredCapabilities" =>
    LET nodes == WeekdayNodes(m_rules[call.rule].m_weekdaySelector)
    IN /\ "PublicHoliday" \in call.result
            <=> \E k \in 1..Len(nodes) : nodes[k].holiday = "PublicHoliday"
       /\ "SchoolHoliday" \in call.result
            <=> \E k \in 1..Len(nodes) : nodes[k].holiday = "SchoolHoliday"

\* C9: the required capabilities of a rule have Location iff some timespan
\* of its time selector has a sun event as its begin or its end.
C9_LocationCapability ==
  call.op = "requiredCapabilities" =>
    LET spans == Chain(m_rules[call.rule].m_timeSelector)
    IN "Location" \in call.result
         <=> \E k \in 1..Len(spans) :
               spans[k].begin.event # "NoEvent" \/ spans[k].end.event # "NoEvent"

\* The capabilities of a rule whose second timespan is the first with a sun
\* event have Location.
C9_Witness ==
  /\ call.op = "requiredCapabilities"
  /\ LET spans == Chain(m_rules[call.rule].m_timeSelector)
     IN /\ Len(spans) = 2
        /\ spans[1].begin.event = "NoEvent" /\ spans[1].end.event = "NoEvent"
        /\ spans[2].begin.event # "NoEvent"
        /\ "Location" \in call.result

\* week 45-13: a week range whose end is before its begin
IsWeekWrap(s) ==
  /\ Len(s) = 4
  /\ Types(s) = <<"T_KEYWORD_WEEK", "T_INTEGER", "T_MINUS", "T_INTEGER">>
  /\ s[4].num < s[2].num

\* C10: a week range whose end week is smaller than its begin week parses
\* without SyntaxError and makes the required capabilities of the rule
\* include NotImplemented.
C10_WeekWrapNotImplemented ==
  (Done /\ IsWeekWrap(Stream)) =>
    /\ yyresult = "accepted"
    /\ call.op = "requiredCapabilities" => "NotImplemented" \in call.result


-----------------------------------------------------------------------------
(* C11: a single point in time                                             *)

\* 10:00 and Dec 08:00: a time selector of one time with no end
IsSingleTimepoint(s) ==
  \/ Len(s) = 1 /\ s[1].type = "T_EXTENDED_HOUR_MINUTE"
  \/ Len(s) = 2 /\ s[1].type = "T_MONTH" /\ s[2].type = "T_EXTENDED_HOUR_MINUTE"

-----------------------------------------------------------------------------
(* C12: a timespan that ends at or before its begin                        *)

\* The minute of the day of a wall-clock time.
MinuteOfDay(t) == t.hour * 60 + t.minute

\* The expression is one timespan written with its end: 18:00-06:00
IsTimeRange(s) ==
  Types(s) = <<"T_EXTENDED_HOUR_MINUTE", "T_MINUS", "T_EXTENDED_HOUR_MINUTE">>

\* C12: for a rule whose timespan has an end time less than or equal to
\* its begin time, the interval computed for a day ends on the following
\* date, later than it begins.
C12_WrapIntoNextDay ==
  (call.op = "nextInterval" /\ IsTimeRange(Stream)) =>
    LET ts == m_rules[call.rule].m_timeSelector[1]
    IN (/\ ts.begin.event = "NoEvent" /\ ts.end.event = "NoEvent"
        /\ MinuteOfDay(ts.end) <= MinuteOfDay(ts.begin)) =>
         /\ call.result.end.date = call.result.begin.date + 1
         /\ Before(call.result.begin, call.result.end)

-----------------------------------------------------------------------------
(* C13: a rule without a time selector                                     *)

\* C13: for a rule with no time selector, the interval computed for the
\* day of dt begins at midnight of that date and ends at midnight of the
\* next date.
C13_WholeDayWithoutTimeSelector ==
  (call.op = "nextInterval" /\ m_rules[call.rule].m_timeSelector = nullptr) =>
    /\ call.result.begin = QDateTime(call.dt.date, QTime(0, 0))
    /\ call.result.end = QDateTime(call.dt.date + 1, QTime(0, 0))

-----------------------------------------------------------------------------
(* C14: the selectors of a rule are a conjunction                          *)

\* The day of the week of a date, in the numbering of T_WEEKDAY: the days
\* of the calendar are numbered from a day with the first weekday value.
DayOfWeek(date) == date % 7

\* The weekday selector is made of plain weekday ranges only.
IsPlainWeekdays(nodes) ==
  \A k \in 1..Len(nodes) :
    nodes[k].holiday = "NoHoliday" /\ nodes[k].nthMask = 0 /\ nodes[k].offset = 0

\* A date lies in some weekday range of the selector.
MatchesWeekdays(nodes, date) ==
  \E k \in 1..Len(nodes) :
    IF nodes[k].beginDay <= nodes[k].endDay
      THEN DayOfWeek(date) \in nodes[k].beginDay..nodes[k].endDay
      ELSE DayOfWeek(date) >= nodes[k].beginDay \/ DayOfWeek(date) <= nodes[k].endDay

\* C14: a rule with a weekday selector yields an interval in its state on
\* the day of dt, an interval that is not empty, only if that day matches
\* the weekday selector.
C14_SelectorsConjunction ==
  call.op = "nextInterval" =>
    LET rule == m_rules[call.rule]
        nodes == WeekdayNodes(rule.m_weekdaySelector)
    IN (/\ nodes # <<>> /\ IsPlainWeekdays(nodes)
        /\ call.result.state = rule.m_state
        /\ call.result.begin.date = call.dt.date
        /\ Before(call.result.begin, call.result.end)) =>
         MatchesWeekdays(nodes, call.dt.date)

-----------------------------------------------------------------------------
(* C15: every timespan of a time selector                                  *)

\* The interval of a timespan on the day of dt.
SpanOn(ts, dt) ==
  [begin |-> QDateTime(dt.date, QTime(ts.begin.hour, ts.begin.minute)),
   end |-> QDateTime(dt.date, QTime(ts.end.hour, ts.end.minute))]

\* dt lies in the timespan on its day.
InSpan(ts, dt) == NotAfter(SpanOn(ts, dt).begin, dt) /\ Before(dt, SpanOn(ts, dt).end)

\* C15: for a rule with timespans S1,...,Sn and an instant dt that lies in
\* some Sk with k > 1 but not in S1, the interval the rule yields for dt is
\* the one of such an Sk.
C15_EveryTimespanEvaluated ==
  call.op = "nextInterval" =>
    LET spans == Chain(m_rules[call.rule].m_timeSelector)
        later == { k \in 2..Len(spans) : InSpan(spans[k], call.dt) }
    IN (later # {} /\ ~InSpan(spans[1], call.dt)) =>
         \E k \in later :
           /\ call.result.begin = SpanOn(spans[k], call.dt).begin
           /\ call.result.end = SpanOn(spans[k], call.dt).end

-----------------------------------------------------------------------------
(* C16, C17: the comment and the state of the interval of a rule           *)

\* C16: the interval Rule::nextInterval returns for a rule with a comment
\* has that comment.
C16_IntervalCarriesComment ==
  (call.op = "nextInterval" /\ m_rules[call.rule].m_comment # "") =>
    call.result.comment = m_rules[call.rule].m_comment

\* The clauses of an expression that are rules, in order: the tokens
\* between rule separators, without the clause a '||' introduces (the
\* grammar has a comment there, not a rule).
RECURSIVE RuleClauses(_, _, _)
RuleClauses(s, clause, isRule) ==
  IF s = <<>> THEN (IF isRule THEN <<clause>> ELSE <<>>)
  ELSE IF Head(s).type \in RuleSeparators
    THEN (IF isRule THEN <<clause>> ELSE <<>>)
           \o RuleClauses(Tail(s), <<>>, Head(s).type # "T_FALLBACK_SEPARATOR")
    ELSE RuleClauses(Tail(s), Append(clause, Head(s)), isRule)

\* The states written in a clause.
StatesOf(clause) ==
  { clause[k].state : k \in { j \in 1..Len(clause) : clause[j].type = "T_STATE" } }

\* C17: the interval a rule yields has the state of the state token of the
\* rule, Open when the rule has no state token, and is never Invalid.
C17_IntervalCarriesState ==
  call.op = "nextInterval" =>
    LET clauses == RuleClauses(Stream, <<>>, TRUE)
    IN /\ Len(clauses) = Len(m_rules)
       /\ call.result.state # "Invalid"
       /\ IF StatesOf(clauses[call.rule]) = {}
            THEN call.result.state = "Open"
            ELSE call.result.state \in StatesOf(clauses[call.rule])

\* The interval of a later rule of an expression, a rule written with
\* state off, is Closed.
C17_Witness ==
  /\ call.op = "nextInterval"
  /\ call.rule > 1
  /\ StatesOf(RuleClauses(Stream, <<>>, TRUE)[call.rule]) = {"Closed"}
  /\ call.result.state = "Closed"

-----------------------------------------------------------------------------
(* C18: the offset of a date                                               *)

\* The month-day range the parser builds for the expression easter: the
\* actions of VariableDate: T_EASTER and of MonthdayRange: DateFrom.
EasterRange ==
  LET date == CHOOSE d \in SemanticAction(70, <<Plain("T_EASTER")>>) : TRUE
  IN (CHOOSE r \in SemanticAction(58, <<date>>) : TRUE).monthdayRange

\* easter +1 day, easter -2 days
IsEasterOffset(s) ==
  /\ Len(s) = 4
  /\ s[1].type = "T_EASTER"
  /\ s[2].type \in {"T_PLUS", "T_MINUS"}
  /\ s[3].type = "T_INTEGER" /\ s[3].num > 0
  /\ s[4].type = "T_KEYWORD_DAY"

\* C18: a date offset written after easter is kept in the parsed month-day
\* range, which differs from the range parsed from easter alone.
C18_EasterOffsetKept ==
  (yyresult = "accepted" /\ IsEasterOffset(Stream)) =>
    /\ Len(m_rules) = 1
    /\ m_rules[1].m_monthdaySelector # Ptr(EasterRange)

-----------------------------------------------------------------------------
(* C19: evaluation is deterministic and leaves the rules unchanged         *)

-----------------------------------------------------------------------------
(* C20: the day offset of a holiday                                        *)

\* An integer as the pair <<h, l>> with l in 0..65535 that stands for
\* h * 65536 + l: the value of a uint32_t, of an int32_t, and the negative
\* of a value.
ValueOfUInt32(n) == << (IF n < 0 THEN 65536 ELSE 0) + (n \div 65536), n % 65536 >>
ValueOfInt32(n) == << n \div 65536, n % 65536 >>
Negative(v) == IF v[2] = 0 THEN << 0 - v[1], 0 >> ELSE << (0 - v[1]) - 1, 65536 - v[2] >>

\* PH +N day, PH -N day
IsHolidayOffset(s) ==
  /\ Len(s) = 4
  /\ s[1].type = "T_PH"
  /\ s[2].type \in {"T_PLUS", "T_MINUS"}
  /\ s[3].type = "T_INTEGER"
  /\ s[4].type = "T_KEYWORD_DAY"

\* C20: the offset stored for PH +N day is N and for PH -N day is -N, for
\* every value N of a T_INTEGER token.
C20_HolidayOffsetSign ==
  (yyresult = "accepted" /\ IsHolidayOffset(Stream)) =>
    LET offset == m_rules[1].m_weekdaySelector[1].offset
        N == ValueOfUInt32(Stream[3].num)
    IN ValueOfInt32(offset) = IF Stream[2].type = "T_PLUS" THEN N ELSE Negative(N)

-----------------------------------------------------------------------------
(* C21: a point in time and a range of no duration                         *)

\* The timespan the parser builds for the bare time T: the action of
\* Timespan: Time.
PointTimespan(T) ==
  (CHOOSE ts \in SemanticAction(26, << [time |-> T] >>) : TRUE).timespan

\* C21: the timespan parsed from the range T-T is different from the
\* timespan parsed from the bare point T.
C21_PointDiffersFromZeroRange ==
  (yyresult = "accepted" /\ IsTimeRange(Stream) /\ Stream[1].time = Stream[3].time) =>
    /\ Len(m_rules) = 1
    /\ m_rules[1].m_timeSelector # Ptr(PointTimespan(Stream[1].time))
=============================================================================
